---- MODULE Spec2Model ----
(***************************************************************************)
(* A model of practal/text: result trees (parser.ts), text line views      *)
(* (textlines.ts), the parser combinators (combinators.ts), the lexer      *)
(* bridge (lexer.ts) and the LR driver (lr parser module).                 *)
(*                                                                         *)
(* Lines and columns are 0-based as in the source; TLA+ sequences are      *)
(* 1-based, so element i of a source array is seq[i + 1].                  *)
(* A result type is the string "undefined" (Discarded), "null"             *)
(* (Structural) or a label.                                                *)
(*                                                                         *)
(* Nine specifications share the variables: SpecTree calls joinResults     *)
(* and pruneResult and SpecSelect selectResults and selectResult on trees, *)
(* SpecText calls cutoutTextLines, SpecCutoff cutoffAfterIndentation and   *)
(* SpecUntil textlinesUntil on sources, SpecParse calls a parser on a text,*)
(* SpecTerminal makes or calls a terminal parser, SpecLR runs one call of  *)
(* an LR parser pass by pass, and SpecLazy runs calls of a parser made by  *)
(* lazyP step by step.  All but SpecLazy draw the arguments of the call in *)
(* their initial states.                                                   *)
(***************************************************************************)
EXTENDS Integers, Sequences, FiniteSets, TLC

\* op: the operation called; arg: its arguments; pc: where the call is
\* ("call" before it runs, "loop" inside the LR driver's loop, "failed" when
\* the LR driver's failed() has produced the return value, "done" when the
\* call has returned otherwise); res: the return value (Pending before);
\* drv: the frames of the LR driver's parse calls, innermost last, each
\* frame the locals of one call of mkParser(...).parse (in SpecLazy: the
\* running calls of the lazy parser); lazy: the variable p that the closure
\* of a parser made by lazyP holds, with the number of calls of the thunk
\* and of calls of the parser by its user so far.
VARIABLES op, arg, pc, res, drv, lazy

vars == <<op, arg, pc, res, drv, lazy>>

Pending == [kind |-> "pending"]

\* The value of lazy where no parser made by lazyP is part of the call.
NullP == [op |-> "null"]

NoLazy == [p |-> NullP, thunkCalls |-> 0, calls |-> 0]

(***************************************************************************)
(* Generic helpers.                                                        *)
(***************************************************************************)
Throw == [kind |-> "throw"]

Ret(v) == [kind |-> "ret", val |-> v]

Max(a, b) == IF a >= b THEN a ELSE b

Min(a, b) == IF a <= b THEN a ELSE b

\* With(x, F) is F(x): the body F with its argument standing for the value x.
With(x, F(_)) == F(x)

RECURSIVE Concat(_)
Concat(ss) == IF ss = <<>> THEN <<>> ELSE Head(ss) \o Concat(Tail(ss))

\* seq.slice(from, to) with 0-based from (inclusive) and to (exclusive)
Slice(s, from, to) == SubSeq(s, from + 1, to)

\* (l1, c1) <= (l2, c2) in document order
PosLeq(l1, c1, l2, c2) == l1 < l2 \/ (l1 = l2 /\ c1 <= c2)

(***************************************************************************)
(* parser.ts: result trees.                                                *)
(***************************************************************************)
Node(type, sl, sc, el, ec, children) ==
    [type |-> type, startLine |-> sl, startColumnInclusive |-> sc,
     endLine |-> el, endColumnExclusive |-> ec, children |-> children]

resultCoordinatesAreValid(startLine, startColumn, endLine, endColumn) ==
    IF ~(startLine \in Nat /\ startColumn \in Nat /\ endLine \in Nat /\ endColumn \in Nat)
    THEN FALSE
    ELSE IF startLine # endLine THEN startLine < endLine
    ELSE startColumn <= endColumn

startOfResult(result) == <<result.startLine, result.startColumnInclusive>>

endOfResult(result) == <<result.endLine, result.endColumnExclusive>>

\* The absent optional argument of joinResults (start? / end?).
Absent == <<>>

\* The loop of joinResults: [ok, line, column, children] after walking results.
RECURSIVE joinWalk(_, _, _, _)
joinWalk(results, line, column, children) ==
    IF results = <<>> THEN [ok |-> TRUE, line |-> line, column |-> column, children |-> children]
    ELSE LET r == Head(results)
             kept == IF r.type # "undefined" THEN Append(children, r) ELSE children
         IN IF ~resultCoordinatesAreValid(line, column, r.startLine, r.startColumnInclusive)
            THEN [ok |-> FALSE, line |-> line, column |-> column, children |-> kept]
            ELSE joinWalk(Tail(results), r.endLine, r.endColumnExclusive, kept)

\* A cursor that does not move to the result's end lets overlapping results through.
joinResults_noAdvance(results, type, start, end) ==
    IF results = <<>> /\ (start = Absent \/ end = Absent) THEN Throw
    ELSE LET s == IF start = Absent THEN startOfResult(results[1]) ELSE start
             e == IF end = Absent THEN endOfResult(results[Len(results)]) ELSE end
             bad == \E i \in 1..Len(results) :
                        ~resultCoordinatesAreValid(s[1], s[2], results[i].startLine,
                                                   results[i].startColumnInclusive)
             kept == SelectSeq(results, LAMBDA r : r.type # "undefined")
         IN IF bad THEN Throw
            ELSE Ret(Node(IF type = "undefined" THEN "null" ELSE type,
                          s[1], s[2], e[1], e[2], kept))

\* joinResults(results, type = null, start?, end?).  A call that passes
\* undefined for `type` gets the default value null (default parameter).
joinResults(results, type, start, end) ==
    IF results = <<>> /\ (start = Absent \/ end = Absent) THEN Throw
    ELSE LET s == IF start = Absent THEN startOfResult(results[1]) ELSE start
             e == IF end = Absent THEN endOfResult(results[Len(results)]) ELSE end
             w == joinWalk(results, s[1], s[2], <<>>)
         IN IF ~w.ok THEN Throw
            ELSE IF ~resultCoordinatesAreValid(w.line, w.column, e[1], e[2]) THEN Throw
            ELSE Ret(Node(IF type = "undefined" THEN "null" ELSE type,
                          s[1], s[2], e[1], e[2], w.children))

RECURSIVE pruneResult(_, _)
RECURSIVE pruneChildren(_, _)

\* A one-level flatten: Structural children are replaced by their own children, unpruned.
pruneResult_shallow(result, pruned) ==
    IF result.type = "undefined" THEN pruned
    ELSE IF result.type = "null" THEN pruneChildren(result.children, pruned)
    ELSE LET flat == Concat([i \in 1..Len(result.children) |->
                        LET c == result.children[i]
                        IN IF c.type = "undefined" THEN <<>>
                           ELSE IF c.type = "null" THEN c.children
                           ELSE <<c>>])
         IN Append(pruned, [result EXCEPT !.children = flat])

\* A Discarded node treated like a Structural one: its descendants are promoted.
pruneResult_keepDiscarded(result, pruned) ==
    IF result.type = "undefined" \/ result.type = "null"
    THEN pruneChildren(result.children, pruned)
    ELSE Append(pruned, [result EXCEPT !.children = pruneChildren(result.children, <<>>)])

\* pruneResult(result, pruned) pushes onto `pruned`; the model returns the new array.
pruneResult(result, pruned) ==
    IF result.type = "undefined" THEN pruned
    ELSE IF result.type = "null" THEN pruneChildren(result.children, pruned)
    ELSE Append(pruned, [result EXCEPT !.children = pruneChildren(result.children, <<>>)])

\* for (const child of children) pruneResult(child, pruned)
pruneChildren(children, pruned) ==
    IF children = <<>> THEN pruned
    ELSE pruneChildren(Tail(children), pruneResult(Head(children), pruned))

\* predicate(r): a predicate is given by the labels it accepts and by
\* whether it accepts only nodes without children.
holds(predicate, r) ==
    r.type \in predicate.labels /\ (predicate.leaf => r.children = <<>>)

RECURSIVE select(_, _, _)
RECURSIVE selectChildren(_, _, _)
RECURSIVE select_intoLabeled(_, _, _)
RECURSIVE selectChildren_intoLabeled(_, _, _)

\* A select that goes on into the children of a Labeled node.
select_intoLabeled(result, predicate, selected) ==
    IF result.type = "undefined" THEN selected
    ELSE selectChildren_intoLabeled(result.children, predicate,
             IF result.type # "null" /\ holds(predicate, result)
             THEN Append(selected, result) ELSE selected)

selectChildren_intoLabeled(children, predicate, selected) ==
    IF children = <<>> THEN selected
    ELSE selectChildren_intoLabeled(Tail(children), predicate,
                                    select_intoLabeled(Head(children), predicate, selected))

\* The local function select of selectResults; it pushes onto `selected`,
\* the model returns the new array.
select(result, predicate, selected) ==
    IF result.type = "null" THEN selectChildren(result.children, predicate, selected)
    ELSE IF result.type # "undefined"
    THEN IF holds(predicate, result) THEN Append(selected, result) ELSE selected
    ELSE selected

\* for (const child of result.children) select(child)
selectChildren(children, predicate, selected) ==
    IF children = <<>> THEN selected
    ELSE selectChildren(Tail(children), predicate, select(Head(children), predicate, selected))

selectResults(result, predicate) == select(result, predicate, <<>>)

\* selectResult(result, predicate): Ret(the match) or Throw
selectResult(result, predicate) ==
    LET results == selectResults(result, predicate)
    IN IF Len(results) = 1 THEN Ret(results[1]) ELSE Throw

(***************************************************************************)
(* textlines.ts: texts and line views.  A Text is a sequence of characters *)
(* (one-character strings).  A TextLines value is a record whose kind      *)
(* names the implementing class.                                           *)
(***************************************************************************)
\* TextSlice.slice(startIndexInclusive, endIndexExclusive)
textSlice(text, startIndexInclusive, endIndexExclusive) ==
    IF startIndexInclusive < 0 THEN Throw
    ELSE IF startIndexInclusive > endIndexExclusive THEN Throw
    ELSE IF endIndexExclusive > Len(text) THEN Throw
    ELSE Ret(Slice(text, startIndexInclusive, endIndexExclusive))

\* new TextLinesImpl(lines)
createTextLines(lines) == [kind |-> "impl", lines |-> lines]

lineCountOf(v) ==
    CASE v.kind = "impl" -> Len(v.lines)
      [] v.kind = "cutoff" -> v.lineCount
      [] v.kind = "window" -> Len(v.lines)
      [] v.kind = "empty" -> 0
      [] v.kind = "until" -> v.endLine + 1

\* lineAt(line): Ret(text), or Throw where the source throws or yields undefined
RECURSIVE lineAt(_, _)
lineAt(v, line) ==
    CASE v.kind = "impl" -> IF line < Len(v.lines) THEN Ret(v.lines[line + 1]) ELSE Throw
      [] v.kind = "cutoff" -> IF line >= v.sourceCount THEN Throw ELSE lineAt(v.source, line)
      [] v.kind = "window" -> IF line < Len(v.lines) THEN Ret(v.lines[line + 1]) ELSE Throw
      [] v.kind = "empty" -> Throw
      [] v.kind = "until" -> IF line < v.endLine THEN lineAt(v.source, line)
                             ELSE IF line = v.endLine THEN Ret(v.lastLine)
                             ELSE Throw

RECURSIVE valid(_, _, _)
valid(v, line, column) ==
    CASE v.kind = "impl" ->
            IF line < Len(v.lines) THEN column <= Len(v.lines[line + 1])
            ELSE Len(v.lines) = 0 /\ line = 0 /\ column = 0
      [] v.kind = "cutoff" -> valid(v.source, line, column) /\ line < v.lineCount
      [] v.kind = "window" ->
            IF line < Len(v.lines) THEN column <= Len(v.lines[line + 1])
            ELSE Len(v.lines) = 0 /\ line = 0 /\ column = 0
      [] v.kind = "empty" -> line = 0 /\ column = 0
      [] v.kind = "until" ->
            IF ~valid(v.source, line, column) THEN FALSE
            ELSE IF line < v.endLine THEN TRUE
            ELSE IF line > v.endLine THEN FALSE
            ELSE column <= Len(v.lastLine)

\* assert(line, column) throws exactly when the position is not valid
assertOk(v, line, column) == valid(v, line, column)

\* Number of characters of line `line` of view v (the line must exist).
countAt(v, line) == Len(lineAt(v, line).val)

\* copySliceOfTextLines(textlines, startLine, startColumn, endLine, endColumn):
\* Ret(the copied lines as a sequence of Texts) or Throw
copySliceOfTextLines(textlines, startLine, startColumn, endLine, endColumn) ==
    IF ~assertOk(textlines, startLine, startColumn) THEN Throw
    ELSE IF ~assertOk(textlines, endLine, endColumn) THEN Throw
    ELSE LET lastLine == Min(lineCountOf(textlines) - 1, endLine)
             piece(i) == LET text == lineAt(textlines, i).val
                             start == IF i = startLine THEN startColumn ELSE 0
                             end == IF i = endLine THEN endColumn ELSE Len(text)
                         IN textSlice(text, start, end)
         IN IF \E i \in startLine..lastLine : piece(i).kind = "throw" THEN Throw
            ELSE Ret(createTextLines([k \in 1..(lastLine - startLine + 1) |->
                                          piece(startLine + k - 1).val]))

\* textlinesOfResult(lines, result)
textlinesOfResult(lines, result) ==
    copySliceOfTextLines(lines, result.startLine, result.startColumnInclusive,
                         result.endLine, result.endColumnExclusive)

(***************************************************************************)
(* lexer.ts: a Lexer is (text, column) -> number.  Lexers are values       *)
(* [parser |-> p] built by parserL(p); applying one runs p on the one-line *)
(* TextLines [text] with state null.                                       *)
(***************************************************************************)
RECURSIVE Parse(_, _, _, _, _)

parserL(parser) == [parser |-> parser]

\* lexer(text, column): Ret(n), or Throw when the parser throws or never returns
applyLexer(lexer, text, column) ==
    With(Parse(lexer.parser, "null", createTextLines(<<text>>), 0, column),
         LAMBDA parseResult :
             IF parseResult.kind = "none" THEN Ret(-1)
             ELSE IF parseResult.kind = "ok"
             THEN Ret(parseResult.result.endColumnExclusive - column)
             ELSE Throw)

\* sectionP's isIndented(text) == spacesL(text, 0) > 0
isIndented(spacesL, text) ==
    With(applyLexer(spacesL, text, 0), LAMBDA n : n.kind = "ret" /\ n.val > 0)

\* The first line index >= line that is not indented, or the line count if none.
RECURSIVE firstNotIndented(_, _, _)
firstNotIndented(source, line, spacesL) ==
    IF line >= lineCountOf(source) THEN line
    ELSE IF isIndented(spacesL, lineAt(source, line).val)
         THEN firstNotIndented(source, line + 1, spacesL)
         ELSE line

\* A cut-off view that keeps the first line that is not indented.
cutoffAfterIndentation_inclusive(source, line, spacesL) ==
    IF ~assertOk(source, line, 0) THEN Throw
    ELSE With(firstNotIndented(source, line + 1, spacesL),
              LAMBDA j :
                  IF j < lineCountOf(source)
                  THEN Ret([kind |-> "cutoff", source |-> source, lineCount |-> j + 1,
                            sourceCount |-> lineCountOf(source)])
                  ELSE Ret(source))

\* cutoffAfterIndentation(source, line, isIndented): Ret(view) or Throw.
\* isIndented is given by the lexer spacesL it is built from in sectionP.
cutoffAfterIndentation(source, line, spacesL) ==
    IF ~assertOk(source, line, 0) THEN Throw
    ELSE With(firstNotIndented(source, line + 1, spacesL),
              LAMBDA j :
                  IF j < lineCountOf(source)
                  THEN Ret([kind |-> "cutoff", source |-> source, lineCount |-> j,
                            sourceCount |-> lineCountOf(source)])
                  ELSE Ret(source))

\* TextLinesWindow.shift / EmptyTextLines.shift; the position must be valid
\* (shift asserts it first).
shift(v, line, column) ==
    IF v.kind = "window" THEN <<line + v.startLine, column + v.columns[line + 1]>>
    ELSE <<v.startLine, v.startColumn>>

\* The loop of cutoutTextLines from source line i on: Ret([lines, columns]),
\* or Throw when the lexer or the slice throws.
RECURSIVE cutoutRest(_, _, _, _, _)
cutoutRest(source, i, skipRemaining, lines, columns) ==
    IF i >= lineCountOf(source) THEN Ret([lines |-> lines, columns |-> columns])
    ELSE With(applyLexer(skipRemaining, lineAt(source, i).val, 0),
              LAMBDA skipped :
                  IF skipped.kind # "ret" THEN Throw
                  ELSE IF skipped.val < 0 THEN Ret([lines |-> lines, columns |-> columns])
                  ELSE LET text == lineAt(source, i).val
                           cut == textSlice(text, skipped.val, Len(text))
                       IN IF cut.kind = "throw" THEN Throw
                          ELSE cutoutRest(source, i + 1, skipRemaining,
                                          Append(lines, cut.val),
                                          Append(columns, skipped.val)))

\* skipFirst's value is added to the column even when it is negative (no clamp).
cutoutTextLines_noClamp(source, line, column, skipFirst, skipRemaining) ==
    IF ~assertOk(source, line, column) THEN Throw
    ELSE IF lineCountOf(source) = 0
    THEN Ret([kind |-> "empty", source |-> source, startLine |-> line, startColumn |-> column])
    ELSE With(applyLexer(skipFirst, lineAt(source, line).val, column),
              LAMBDA lexed :
                  IF lexed.kind # "ret" THEN Throw
                  ELSE LET text == lineAt(source, line).val
                           skipped == lexed.val
                           first == textSlice(text, column + skipped, Len(text))
                       IN IF first.kind = "throw" THEN Throw
                          ELSE With(cutoutRest(source, line + 1, skipRemaining,
                                               <<first.val>>, <<column + skipped>>),
                                    LAMBDA rest :
                                        IF rest.kind = "throw" THEN Throw
                                        ELSE Ret([kind |-> "window", source |-> source,
                                                  startLine |-> line,
                                                  lines |-> rest.val.lines,
                                                  columns |-> rest.val.columns])))

\* The columns array records 0 for every line after the first.
cutoutTextLines_zeroColumns(source, line, column, skipFirst, skipRemaining) ==
    IF ~assertOk(source, line, column) THEN Throw
    ELSE IF lineCountOf(source) = 0
    THEN Ret([kind |-> "empty", source |-> source, startLine |-> line, startColumn |-> column])
    ELSE With(applyLexer(skipFirst, lineAt(source, line).val, column),
              LAMBDA lexed :
                  IF lexed.kind # "ret" THEN Throw
                  ELSE LET text == lineAt(source, line).val
                           skipped == Max(lexed.val, 0)
                           first == textSlice(text, column + skipped, Len(text))
                       IN IF first.kind = "throw" THEN Throw
                          ELSE With(cutoutRest(source, line + 1, skipRemaining,
                                               <<first.val>>, <<column + skipped>>),
                                    LAMBDA rest :
                                        IF rest.kind = "throw" THEN Throw
                                        ELSE Ret([kind |-> "window", source |-> source,
                                                  startLine |-> line,
                                                  lines |-> rest.val.lines,
                                                  columns |-> [k \in 1..Len(rest.val.columns) |->
                                                      IF k = 1 THEN rest.val.columns[k] ELSE 0]])))

\* cutoutTextLines(source, line, column, skipFirst, skipRemaining): Ret(view) or Throw
cutoutTextLines(source, line, column, skipFirst, skipRemaining) ==
    IF ~assertOk(source, line, column) THEN Throw
    ELSE IF lineCountOf(source) = 0
    THEN Ret([kind |-> "empty", source |-> source, startLine |-> line, startColumn |-> column])
    ELSE With(applyLexer(skipFirst, lineAt(source, line).val, column),
              LAMBDA lexed :
                  IF lexed.kind # "ret" THEN Throw
                  ELSE LET text == lineAt(source, line).val
                           skipped == Max(lexed.val, 0)
                           first == textSlice(text, column + skipped, Len(text))
                       IN IF first.kind = "throw" THEN Throw
                          ELSE With(cutoutRest(source, line + 1, skipRemaining,
                                               <<first.val>>, <<column + skipped>>),
                                    LAMBDA rest :
                                        IF rest.kind = "throw" THEN Throw
                                        ELSE Ret([kind |-> "window", source |-> source,
                                                  startLine |-> line,
                                                  lines |-> rest.val.lines,
                                                  columns |-> rest.val.columns])))

\* A TextLinesUntil that keeps the whole of its last line.
TextLinesUntil_wholeLine(source, endLine, endColumn) ==
    IF endLine >= lineCountOf(source) \/ endLine < 0 THEN Throw
    ELSE Ret([kind |-> "until", source |-> source, endLine |-> endLine,
              lastLine |-> lineAt(source, endLine).val])

\* new TextLinesUntil(source, endLine, endColumn)
TextLinesUntil(source, endLine, endColumn) ==
    IF endLine >= lineCountOf(source) \/ endLine < 0 THEN Throw
    ELSE LET lastLine == lineAt(source, endLine).val
         IN Ret([kind |-> "until", source |-> source, endLine |-> endLine,
                 lastLine |-> IF Len(lastLine) <= endColumn THEN lastLine
                              ELSE Slice(lastLine, 0, endColumn)])

\* textlinesUntil(lines, endLine, endColumn)
textlinesUntil(lines, endLine, endColumn) ==
    IF endLine >= lineCountOf(lines) THEN Ret(lines)
    ELSE TextLinesUntil(lines, endLine, endColumn)

(***************************************************************************)
(* combinators.ts: parsers.  A parser is a record naming the combinator    *)
(* that built it; Parse(p, state, lines, line, column) is the call         *)
(* p(state, lines, line, column).  Its value is None (undefined), Ok(state,*)
(* result), Throw (an exception) or Loop (the call never returns).         *)
(***************************************************************************)
None == [kind |-> "none"]

Ok(state, result) == [kind |-> "ok", state |-> state, result |-> result]

Loop == [kind |-> "loop"]

\* The characters of the model's texts.
Chars == {"a", "b", "x", "e", "n", "d", "1", "2", "+", "-", " "}

\* The user states are 0 .. NStates - 1.
NStates == 3

emptyP == [op |-> "emptyP"]

failP == [op |-> "failP"]

\* A seqP that builds a sequence parser for every number of elements.
seqP_noShortcut(parsers) == [op |-> "seqP", parsers |-> parsers]

seqP(parsers) ==
    IF Len(parsers) = 0 THEN emptyP
    ELSE IF Len(parsers) = 1 THEN parsers[1]
    ELSE [op |-> "seqP", parsers |-> parsers]

\* charP(predicate); the predicate is the set of characters it accepts
charP(predicate) == [op |-> "charP", predicate |-> predicate]

anyCharP == charP(Chars)

newlineP == [op |-> "newlineP"]

\* modifyParseResultP(parser, modify) with a user function `modify` that
\* leaves the result alone and advances the user state by one.
bumpStateP(parser) == [op |-> "modifyParseResultP", parser |-> parser]

\* setTypeP(type, parser) = modifyTypeP(parser, () => type)
setTypeP(type, parser) == [op |-> "setTypeP", type |-> type, parser |-> parser]

\* literalP(text, type?); an omitted type is "undefined"
literalP(text, type) ==
    setTypeP(type, seqP([i \in 1..Len(text) |-> charP({text[i]})]))

orP(parsers) == [op |-> "orP", parsers |-> parsers]

literalsP(texts) == orP([i \in 1..Len(texts) |-> literalP(texts[i], "undefined")])

optP(parsers) == orP(<<seqP(parsers), emptyP>>)

repP(parsers) == [op |-> "repP", parser |-> seqP(parsers)]

rep1P(parsers) == LET parser == seqP(parsers) IN seqP(<<parser, repP(<<parser>>)>>)

joinP(elemP, jointP) == seqP(<<elemP, repP(<<jointP, elemP>>)>>)

eofP == [op |-> "eofP"]

bolP == [op |-> "bolP"]

eolP == orP(<<eofP, newlineP>>)

notP(parser) == [op |-> "notP", parser |-> parser]

lookaheadP(parser) == [op |-> "lookaheadP", parser |-> parser]

\* sectionP(bulletP, bodyP, spacesL, indentationL, afterP); bodyP is the
\* constant function returning the parser `bodyP`.
sectionP(bulletP, bodyP, spacesL, indentationL, afterP) ==
    [op |-> "sectionP", bulletP |-> bulletP, bodyP |-> bodyP, spacesL |-> spacesL,
     indentationL |-> indentationL, afterP |-> afterP]

\* shift asserts the position: shiftResult throws unless every span end is valid
RECURSIVE shiftable(_, _)
shiftable(lines, result) ==
    /\ valid(lines, result.startLine, result.startColumnInclusive)
    /\ valid(lines, result.endLine, result.endColumnExclusive)
    /\ \A i \in 1..Len(result.children) : shiftable(lines, result.children[i])

RECURSIVE shiftResult(_, _)
\* Only the start of each span is translated.
shiftResult_startOnly(lines, result) ==
    LET s == shift(lines, result.startLine, result.startColumnInclusive)
    IN Node(result.type, s[1], s[2], result.endLine, result.endColumnExclusive,
            [i \in 1..Len(result.children) |-> shiftResult(lines, result.children[i])])

\* The children are not translated.
shiftResult_rootOnly(lines, result) ==
    LET s == shift(lines, result.startLine, result.startColumnInclusive)
        e == shift(lines, result.endLine, result.endColumnExclusive)
    IN Node(result.type, s[1], s[2], e[1], e[2], result.children)

\* shiftResult(lines, result) rewrites the spans in place; the model returns the tree.
shiftResult(lines, result) ==
    LET s == shift(lines, result.startLine, result.startColumnInclusive)
        e == shift(lines, result.endLine, result.endColumnExclusive)
    IN Node(result.type, s[1], s[2], e[1], e[2],
            [i \in 1..Len(result.children) |-> shiftResult(lines, result.children[i])])

\* An eofP that does not assert the position.
eofParse_noAssert(state, lines, line, column) ==
    IF line = lineCountOf(lines)
       \/ (line + 1 = lineCountOf(lines) /\ column = countAt(lines, line))
    THEN Ok(state, Node("undefined", line, column, line, column, <<>>))
    ELSE None

\* eofP.parse
eofParse(state, lines, line, column) ==
    IF ~assertOk(lines, line, column) THEN Throw
    ELSE IF line = lineCountOf(lines)
            \/ (line + 1 = lineCountOf(lines) /\ column = countAt(lines, line))
         THEN Ok(state, Node("undefined", line, column, line, column, <<>>))
         ELSE None

RECURSIVE seqLoop(_, _, _, _, _, _)
RECURSIVE seqLoop_keepPartial(_, _, _, _, _, _)
RECURSIVE lrParse(_, _, _, _, _, _)
RECURSIVE orLoop(_, _, _, _, _)
RECURSIVE repLoop(_, _, _, _, _, _)
RECURSIVE sectionParse(_, _, _, _, _)

\* A seqP that returns what it parsed before the element that failed.
seqLoop_keepPartial(parsers, state, lines, pos, start, children) ==
    IF parsers = <<>>
    THEN Ok(state, Node("null", start[1], start[2], pos[1], pos[2], children))
    ELSE LET parsed == Parse(Head(parsers), state, lines, pos[1], pos[2])
         IN IF parsed.kind = "none" /\ pos # start
            THEN Ok(state, Node("null", start[1], start[2], pos[1], pos[2], children))
            ELSE IF parsed.kind # "ok" THEN parsed
            ELSE seqLoop_keepPartial(Tail(parsers), parsed.state, lines,
                                     endOfResult(parsed.result), start,
                                     IF parsed.result.type # "undefined"
                                     THEN Append(children, parsed.result) ELSE children)

\* The for loop of seqP.parse; pos is the cursor, start the entry position.
seqLoop(parsers, state, lines, pos, start, children) ==
    IF parsers = <<>>
    THEN Ok(state, Node("null", start[1], start[2], pos[1], pos[2], children))
    ELSE LET parsed == Parse(Head(parsers), state, lines, pos[1], pos[2])
         IN IF parsed.kind # "ok" THEN parsed
            ELSE seqLoop(Tail(parsers), parsed.state, lines, endOfResult(parsed.result), start,
                         IF parsed.result.type # "undefined"
                         THEN Append(children, parsed.result) ELSE children)

\* The for loop of orP.parse.
orLoop(parsers, state, lines, line, column) ==
    IF parsers = <<>> THEN None
    ELSE LET result == Parse(Head(parsers), state, lines, line, column)
         IN IF result.kind # "none" THEN result
            ELSE orLoop(Tail(parsers), state, lines, line, column)

\* The while (true) loop of repP.parse.  No parser of the model reads the
\* user state, so an iteration that succeeds without moving the cursor
\* succeeds again forever: the call does not return.
repLoop(parser, state, lines, pos, start, children) ==
    LET parsed == Parse(parser, state, lines, pos[1], pos[2])
    IN IF parsed.kind = "none"
       THEN Ok(state, Node("null", start[1], start[2], pos[1], pos[2], children))
       ELSE IF parsed.kind # "ok" THEN parsed
       ELSE IF endOfResult(parsed.result) = pos THEN Loop
       ELSE repLoop(parser, parsed.state, lines, endOfResult(parsed.result), start,
                    IF parsed.result.type # "undefined"
                    THEN Append(children, parsed.result) ELSE children)

\* What sectionP.parse computes up to the shifted body: Throw, None, Loop, or
\* [kind |-> "body", bullet, bodyLines, windowed (the body's parse result in
\* window coordinates), bodyResult (after shiftResult)].
sectionBody(p, state, lines, line, column) ==
    With(cutoffAfterIndentation(lines, line, p.spacesL),
         LAMBDA bulletLines :
    IF bulletLines.kind = "throw" THEN Throw
    ELSE With(Parse(p.bulletP, state, bulletLines.val, line, column),
              LAMBDA bulletParseResult :
    IF bulletParseResult.kind # "ok" THEN bulletParseResult
    ELSE With(cutoutTextLines(lines, bulletParseResult.result.endLine,
                              bulletParseResult.result.endColumnExclusive,
                              p.spacesL, p.indentationL),
              LAMBDA bodyLines :
    IF bodyLines.kind = "throw" THEN Throw
    ELSE With(Parse(p.bodyP, bulletParseResult.state, bodyLines.val, 0, 0),
              LAMBDA bodyParseResult :
    IF bodyParseResult.kind # "ok" THEN bodyParseResult
    ELSE IF ~shiftable(bodyLines.val, bodyParseResult.result) THEN Throw
    ELSE [kind |-> "body",
          bullet |-> bulletParseResult,
          bodyLines |-> bodyLines.val,
          windowed |-> bodyParseResult,
          bodyResult |-> shiftResult(bodyLines.val, bodyParseResult.result)]))))

\* A sectionP that fails when afterP fails.
sectionParse_requireAfter(p, state, lines, line, column) ==
    IF ~assertOk(lines, line, column) THEN Throw
    ELSE IF column > 0 THEN None
    ELSE With(sectionBody(p, state, lines, line, column),
              LAMBDA b :
    IF b.kind # "body" THEN b
    ELSE With(Parse(p.afterP, b.windowed.state, lines,
                    b.bodyResult.endLine, b.bodyResult.endColumnExclusive),
              LAMBDA after :
    IF after.kind # "ok" THEN after
    ELSE With(joinResults(<<b.bullet.result, b.bodyResult, after.result>>, "null",
                          <<line, column>>, endOfResult(after.result)),
              LAMBDA joinedResult :
    IF joinedResult.kind = "throw" THEN Throw
    ELSE Ok(b.windowed.state, joinedResult.val))))

\* sectionP.parse
sectionParse(p, state, lines, line, column) ==
    IF ~assertOk(lines, line, column) THEN Throw
    ELSE IF column > 0 THEN None
    ELSE With(sectionBody(p, state, lines, line, column),
              LAMBDA b :
    IF b.kind # "body" THEN b
    ELSE With(Parse(p.afterP, b.windowed.state, lines,
                    b.bodyResult.endLine, b.bodyResult.endColumnExclusive),
              LAMBDA after :
    IF after.kind = "throw" \/ after.kind = "loop" THEN after
    ELSE LET results == IF after.kind = "ok"
                        THEN <<b.bullet.result, b.bodyResult, after.result>>
                        ELSE <<b.bullet.result, b.bodyResult>>
             end == IF after.kind = "ok" THEN endOfResult(after.result)
                    ELSE endOfResult(b.bodyResult)
             joinedResult == joinResults(results, "null", <<line, column>>, end)
         IN IF joinedResult.kind = "throw" THEN Throw
            ELSE Ok(b.windowed.state, joinedResult.val)))

Parse(p, state, lines, line, column) ==
    CASE p.op = "emptyP" ->
            IF ~assertOk(lines, line, column) THEN Throw
            ELSE Ok(state, Node("null", line, column, line, column, <<>>))
      [] p.op = "failP" ->
            IF ~assertOk(lines, line, column) THEN Throw ELSE None
      [] p.op = "seqP" ->
            IF ~assertOk(lines, line, column) THEN Throw
            ELSE seqLoop(p.parsers, state, lines, <<line, column>>, <<line, column>>, <<>>)
      [] p.op = "charP" ->
            IF ~assertOk(lines, line, column) THEN Throw
            ELSE IF line >= lineCountOf(lines) THEN None
            ELSE LET text == lineAt(lines, line)
                 IN IF text.kind = "throw" THEN Throw
                    ELSE IF column >= Len(text.val) THEN None
                    ELSE IF text.val[column + 1] \notin p.predicate THEN None
                    ELSE Ok(state, Node("undefined", line, column, line, column + 1, <<>>))
      [] p.op = "newlineP" ->
            IF ~assertOk(lines, line, column) THEN Throw
            ELSE IF line + 1 < lineCountOf(lines) /\ column = countAt(lines, line)
                 THEN Ok(state, Node("undefined", line, column, line + 1, 0, <<>>))
                 ELSE None
      [] p.op = "modifyParseResultP" ->
            LET parse_result == Parse(p.parser, state, lines, line, column)
            IN IF parse_result.kind # "ok" THEN parse_result
               ELSE Ok((parse_result.state + 1) % NStates, parse_result.result)
      [] p.op = "setTypeP" ->
            LET parse_result == Parse(p.parser, state, lines, line, column)
            IN IF parse_result.kind # "ok" THEN parse_result
               ELSE Ok(parse_result.state, [parse_result.result EXCEPT !.type = p.type])
      [] p.op = "orP" ->
            IF ~assertOk(lines, line, column) THEN Throw
            ELSE orLoop(p.parsers, state, lines, line, column)
      [] p.op = "repP" ->
            IF ~assertOk(lines, line, column) THEN Throw
            ELSE repLoop(p.parser, state, lines, <<line, column>>, <<line, column>>, <<>>)
      [] p.op = "eofP" -> eofParse(state, lines, line, column)
      [] p.op = "bolP" ->
            IF ~assertOk(lines, line, column) THEN Throw
            ELSE IF line < lineCountOf(lines) /\ column = 0
                 THEN Ok(state, Node("undefined", line, column, line, column, <<>>))
                 ELSE None
      [] p.op = "notP" ->
            LET parse_result == Parse(p.parser, state, lines, line, column)
            IN IF parse_result.kind = "none"
               THEN Ok(state, joinResults(<<>>, "undefined", <<line, column>>,
                                          <<line, column>>).val)
               ELSE IF parse_result.kind = "ok" THEN None
               ELSE parse_result
      [] p.op = "lookaheadP" ->
            LET parse_result == Parse(p.parser, state, lines, line, column)
            IN IF parse_result.kind = "ok"
               THEN Ok(state, joinResults(<<>>, "undefined", <<line, column>>,
                                          <<line, column>>).val)
               ELSE parse_result
      [] p.op = "sectionP" -> sectionParse(p, state, lines, line, column)
      [] p.op = "lrP" -> lrParse(p.G, p.maximum_valid, state, lines, line, column)

(***************************************************************************)
(* The LR driver (lrP).  A grammar value G holds what lrP derives at       *)
(* construction: plans (one ActionPlan per LR state), rules ([lhs, rhs]),  *)
(* goto (a function on <<state, nonterminal>> pairs, undefined elsewhere), *)
(* finalStates, nonterminals (the label map), terminal_parsers and invalid *)
(* ("absent" when the invalid argument is not given).  A terminal is named *)
(* by its symbol; EOF is the symbol null (handle 0).                       *)
(***************************************************************************)
EOF == "null"

\* mkTerminalParsers(parsers), parsers a sequence of <<sym, parser>>: the
\* terminal parsers, or Throw when parserOfSym has fewer keys than parsers
\* has entries.
mkTerminalParsers(parsers) ==
    IF Cardinality({parsers[i][1] : i \in 1..Len(parsers)}) # Len(parsers) THEN Throw
    ELSE [kind |-> "mk", parsers |-> parsers]

orTerminalParsers(parsers) == [kind |-> "or", parsers |-> parsers]

orGreedyTerminalParsers(parsers) == [kind |-> "orGreedy", parsers |-> parsers]

\* The loop of the parse function mkTerminalParsers returns:
\* Ret(list of candidates), Throw or Loop.
RECURSIVE mkLoop(_, _, _, _, _)
mkLoop(filtered_parsers, state, lines, line, offset) ==
    IF filtered_parsers = <<>> THEN Ret(<<>>)
    ELSE With(Parse(Head(filtered_parsers)[2], state, lines, line, offset),
              LAMBDA r :
                  IF r.kind = "none"
                  THEN mkLoop(Tail(filtered_parsers), state, lines, line, offset)
                  ELSE IF r.kind = "ok"
                  THEN Ret(<<[sym |-> Head(filtered_parsers)[1], state |-> r.state,
                              result |-> r.result]>>)
                  ELSE r)

\* terminal_parsers(terminals)(state, lines, line, offset)
RECURSIVE terminalParse(_, _, _, _, _, _)
RECURSIVE orTerminalLoop(_, _, _, _, _, _, _)
RECURSIVE orGreedyLoop(_, _, _, _, _, _)
RECURSIVE orGreedyLoop_runAll(_, _, _, _, _, _)

orTerminalLoop(parsers, terminals, state, lines, line, offset, results) ==
    IF parsers = <<>> THEN Ret(results)
    ELSE LET r == terminalParse(Head(parsers), terminals, state, lines, line, offset)
         IN IF r.kind # "ret" THEN r
            ELSE orTerminalLoop(Tail(parsers), terminals, state, lines, line, offset,
                                results \o r.val)

\* An orGreedy that runs every child before it picks the first non-empty list.
orGreedyLoop_runAll(parsers, terminals, state, lines, line, offset) ==
    IF parsers = <<>> THEN Ret(<<>>)
    ELSE LET r == terminalParse(Head(parsers), terminals, state, lines, line, offset)
             rest == orGreedyLoop_runAll(Tail(parsers), terminals, state, lines, line, offset)
         IN IF r.kind # "ret" THEN r
            ELSE IF rest.kind # "ret" THEN rest
            ELSE IF Len(r.val) > 0 THEN r ELSE rest

orGreedyLoop(parsers, terminals, state, lines, line, offset) ==
    IF parsers = <<>> THEN Ret(<<>>)
    ELSE LET r == terminalParse(Head(parsers), terminals, state, lines, line, offset)
         IN IF r.kind # "ret" THEN r
            ELSE IF Len(r.val) > 0 THEN r
            ELSE orGreedyLoop(Tail(parsers), terminals, state, lines, line, offset)

\* Terminal parsers that try the end of input before the registered parsers.
terminalParse_eofFirst(tp, terminals, state, lines, line, offset) ==
    CASE tp.kind = "mk" ->
            LET filtered == SelectSeq(tp.parsers, LAMBDA q : q[1] \in terminals)
                filtered_parsers == IF EOF \in terminals
                                    THEN <<<<EOF, eofP>>>> \o filtered ELSE filtered
            IN mkLoop(filtered_parsers, state, lines, line, offset)
      [] tp.kind = "or" ->
            orTerminalLoop(tp.parsers, terminals, state, lines, line, offset, <<>>)
      [] tp.kind = "orGreedy" ->
            orGreedyLoop(tp.parsers, terminals, state, lines, line, offset)

terminalParse(tp, terminals, state, lines, line, offset) ==
    CASE tp.kind = "mk" ->
            LET filtered == SelectSeq(tp.parsers, LAMBDA q : q[1] \in terminals)
                filtered_parsers == IF EOF \in terminals
                                    THEN Append(filtered, <<EOF, eofP>>) ELSE filtered
            IN mkLoop(filtered_parsers, state, lines, line, offset)
      [] tp.kind = "or" ->
            orTerminalLoop(tp.parsers, terminals, state, lines, line, offset, <<>>)
      [] tp.kind = "orGreedy" ->
            orGreedyLoop(tp.parsers, terminals, state, lines, line, offset)

\* Action plans.
ErrorPlan == [kind |-> "ERROR"]

AcceptPlan == [kind |-> "ACCEPT"]

ReducePlan(rule) == [kind |-> "REDUCE", rule |-> rule]

ShiftPlan(state, munch) == [kind |-> "SHIFT", state |-> state, munch |-> munch]

\* options is a sequence of <<set of terminals, plan>>
ReadPlan(options) == [kind |-> "READ", options |-> options]

\* goto(lr_state, nonterminal): the state (a natural number), or -1 for undefined
goto(G, lr_state, nonterminal) ==
    IF <<lr_state, nonterminal>> \in DOMAIN G.goto THEN G.goto[<<lr_state, nonterminal>>]
    ELSE -1

\* An execute that goes on with the first of several candidates.
RECURSIVE execute_firstCandidate(_, _, _, _)
execute_firstCandidate(G, lines, plan, x) ==
    CASE plan.kind = "ERROR" -> [kind |-> "undefined"]
      [] plan.kind = "ACCEPT" -> [kind |-> "action", action |-> [kind |-> "ACCEPT"], x |-> x]
      [] plan.kind = "REDUCE" ->
            [kind |-> "action", action |-> [kind |-> "REDUCE", rule |-> plan.rule], x |-> x]
      [] plan.kind = "SHIFT" ->
            [kind |-> "action", action |-> [kind |-> "SHIFT", state |-> plan.state],
             x |-> [x EXCEPT !.munch = plan.munch]]
      [] plan.kind = "READ" ->
            With(terminalParse(G.terminal_parsers,
                               UNION {plan.options[i][1] : i \in 1..Len(plan.options)},
                               x.state, lines, x.line, x.offset),
                 LAMBDA results :
                     IF results.kind # "ret" THEN results
                     ELSE IF Len(results.val) = 0 THEN [kind |-> "undefined"]
                     ELSE LET c == results.val[1]
                              hit == {i \in 1..Len(plan.options) : c.sym \in plan.options[i][1]}
                          IN IF hit = {} THEN Throw
                             ELSE LET i == CHOOSE i \in hit : \A j \in hit : i <= j
                                  IN execute_firstCandidate(G, lines, plan.options[i][2],
                                             [x EXCEPT !.state = c.state,
                                                       !.line = c.result.endLine,
                                                       !.offset = c.result.endColumnExclusive,
                                                       !.states = Append(@, c.state),
                                                       !.tokens = Append(@, c.result)]))

\* The local function execute of executePlan.  x holds the variables it
\* shares with executePlan: [state, line, offset, tokens, states, munch].
\* Its value is [kind |-> "undefined"], [kind |-> "action", action, x], Throw or Loop.
RECURSIVE execute(_, _, _, _)
execute(G, lines, plan, x) ==
    CASE plan.kind = "ERROR" -> [kind |-> "undefined"]
      [] plan.kind = "ACCEPT" -> [kind |-> "action", action |-> [kind |-> "ACCEPT"], x |-> x]
      [] plan.kind = "REDUCE" ->
            [kind |-> "action", action |-> [kind |-> "REDUCE", rule |-> plan.rule], x |-> x]
      [] plan.kind = "SHIFT" ->
            [kind |-> "action", action |-> [kind |-> "SHIFT", state |-> plan.state],
             x |-> [x EXCEPT !.munch = plan.munch]]
      [] plan.kind = "READ" ->
            With(terminalParse(G.terminal_parsers,
                               UNION {plan.options[i][1] : i \in 1..Len(plan.options)},
                               x.state, lines, x.line, x.offset),
                 LAMBDA results :
                     IF results.kind # "ret" THEN results
                     ELSE IF Len(results.val) # 1 THEN [kind |-> "undefined"]
                     ELSE LET c == results.val[1]
                              hit == {i \in 1..Len(plan.options) : c.sym \in plan.options[i][1]}
                          IN IF hit = {} THEN Throw
                             ELSE LET i == CHOOSE i \in hit : \A j \in hit : i <= j
                                  IN execute(G, lines, plan.options[i][2],
                                             [x EXCEPT !.state = c.state,
                                                       !.line = c.result.endLine,
                                                       !.offset = c.result.endColumnExclusive,
                                                       !.states = Append(@, c.state),
                                                       !.tokens = Append(@, c.result)]))

\* An executePlan that returns every token it read.
executePlan_noSlice(G, state, lines, line, offset, plan) ==
    With(execute(G, lines, plan,
                 [state |-> state, line |-> line, offset |-> offset,
                  tokens |-> <<>>, states |-> <<state>>, munch |-> 0]),
         LAMBDA r :
             IF r.kind # "action" THEN r
             ELSE [kind |-> "action",
                   tokens |-> r.x.tokens,
                   state |-> IF r.x.munch < Len(r.x.states) THEN r.x.states[r.x.munch + 1]
                             ELSE "undefined",
                   action |-> r.action])

\* An executePlan that returns the state after the last token it read.
executePlan_lastState(G, state, lines, line, offset, plan) ==
    With(execute(G, lines, plan,
                 [state |-> state, line |-> line, offset |-> offset,
                  tokens |-> <<>>, states |-> <<state>>, munch |-> 0]),
         LAMBDA r :
             IF r.kind # "action" THEN r
             ELSE [kind |-> "action",
                   tokens |-> Slice(r.x.tokens, 0, Min(r.x.munch, Len(r.x.tokens))),
                   state |-> r.x.state,
                   action |-> r.action])

\* executePlan(state, lines, line, offset, plan):
\* [kind |-> "undefined"], [kind |-> "action", tokens, state, action], Throw or Loop
executePlan(G, state, lines, line, offset, plan) ==
    With(execute(G, lines, plan,
                 [state |-> state, line |-> line, offset |-> offset,
                  tokens |-> <<>>, states |-> <<state>>, munch |-> 0]),
         LAMBDA r :
             IF r.kind # "action" THEN r
             ELSE [kind |-> "action",
                   tokens |-> Slice(r.x.tokens, 0, Min(r.x.munch, Len(r.x.tokens))),
                   state |-> IF r.x.munch < Len(r.x.states) THEN r.x.states[r.x.munch + 1]
                             ELSE "undefined",
                   action |-> r.action])

\* The locals of mkParser(maximum_valid).parse at the start of a call.
lrLocals(maximum_valid, state, lines, line, offset) ==
    [maximum_valid |-> maximum_valid, lines |-> lines,
     startLine |-> line, startOffset |-> offset, startState |-> state,
     lr_states |-> <<0>>, results |-> <<>>, last_valid |-> Absent,
     line |-> line, offset |-> offset, state |-> state]

\* Array.prototype.splice's reading of its start argument
spliceStart(len, start) == IF start < 0 THEN Max(len + start, 0) ELSE Min(start, len)

\* The entry state is returned with the invalid tree.
invalidTree_entryState(G, d) ==
    IF G.invalid = "absent" THEN None
    ELSE Ok(d.startState,
            Node(G.invalid, d.startLine, d.startOffset, d.line, d.offset, d.results))

\* The invalid-labeled tree of failed(), or undefined when no label was given.
invalidTree(G, d) ==
    IF G.invalid = "absent" THEN None
    ELSE Ok(d.state, Node(G.invalid, d.startLine, d.startOffset, d.line, d.offset, d.results))

\* The restart starts at the cursor with the current state instead of the entry.
restartLocals_fromCursor(d, linesUntil) ==
    lrLocals(FALSE, d.state, linesUntil, d.line, d.offset)

\* The call mkParser(false)(startState, linesUntil, startLine, startOffset) in failed()
restartLocals(d, linesUntil) ==
    lrLocals(FALSE, d.startState, linesUntil, d.startLine, d.startOffset)

\* failed() restarts exactly when this holds
restarts(d) == d.maximum_valid /\ d.last_valid # Absent

\* A loop head that records the cursor whatever the top LR state is.
markValid_anyState(G, d) == [d EXCEPT !.last_valid = <<d.line, d.offset>>]

\* The head of the loop: last_valid is set when the top LR state is final.
markValid(G, d) ==
    IF d.lr_states[Len(d.lr_states)] \in G.finalStates
    THEN [d EXCEPT !.last_valid = <<d.line, d.offset>>] ELSE d

\* An Accept that goes to failed() unless the buffer holds one tree.
acceptStep_viaFailed(d) ==
    IF Len(d.results) = 1
    THEN [kind |-> "return", value |-> Ok(d.state, d.results[1])]
    ELSE [kind |-> "failed", d |-> d]

\* case ActionKind.ACCEPT
acceptStep(d) ==
    IF Len(d.results) = 1
    THEN [kind |-> "return", value |-> Ok(d.state, d.results[1])]
    ELSE [kind |-> "return", value |-> Throw]

\* A Reduce that pushes the goto state without popping the L states.
reduceStep_noPop(G, d, action) ==
    LET rule == G.rules[action.rule + 1]
        L == Len(rule.rhs)
    IN IF Len(d.lr_states) > L
       THEN LET top == d.lr_states[Len(d.lr_states) - L]
                goto_lr_state == goto(G, top, rule.lhs)
                n == Len(d.results)
                from == spliceStart(n, n - L)
                rhs == Slice(d.results, from, Min(from + L, n))
                kept == Slice(d.results, 0, from) \o Slice(d.results, Min(from + L, n), n)
                s == IF rule.lhs \in DOMAIN G.nonterminals
                     THEN G.nonterminals[rule.lhs] ELSE "null"
                tree == IF Len(rhs) > 0
                        THEN Node(s, rhs[1].startLine, rhs[1].startColumnInclusive,
                                  rhs[Len(rhs)].endLine, rhs[Len(rhs)].endColumnExclusive, rhs)
                        ELSE Node(s, d.line, d.offset, d.line, d.offset, rhs)
            IN IF goto_lr_state = -1
               THEN [kind |-> "failed", d |-> d]
               ELSE [kind |-> "continue",
                     d |-> [d EXCEPT
                         !.results = Append(kept, tree),
                         !.lr_states = Append(d.lr_states, goto_lr_state)]]
       ELSE [kind |-> "return", value |-> Throw]

\* case ActionKind.REDUCE
reduceStep(G, d, action) ==
    LET rule == G.rules[action.rule + 1]
        L == Len(rule.rhs)
    IN IF Len(d.lr_states) > L
       THEN LET top == d.lr_states[Len(d.lr_states) - L]
                goto_lr_state == goto(G, top, rule.lhs)
                n == Len(d.results)
                from == spliceStart(n, n - L)
                rhs == Slice(d.results, from, Min(from + L, n))
                kept == Slice(d.results, 0, from) \o Slice(d.results, Min(from + L, n), n)
                s == IF rule.lhs \in DOMAIN G.nonterminals
                     THEN G.nonterminals[rule.lhs] ELSE "null"
                tree == IF Len(rhs) > 0
                        THEN Node(s, rhs[1].startLine, rhs[1].startColumnInclusive,
                                  rhs[Len(rhs)].endLine, rhs[Len(rhs)].endColumnExclusive, rhs)
                        ELSE Node(s, d.line, d.offset, d.line, d.offset, rhs)
            IN IF goto_lr_state = -1
               THEN [kind |-> "failed", d |-> d]
               ELSE [kind |-> "continue",
                     d |-> [d EXCEPT
                         !.results = Append(kept, tree),
                         !.lr_states = Append(Slice(d.lr_states, 0, Len(d.lr_states) - L),
                                              goto_lr_state)]]
       ELSE [kind |-> "return", value |-> Throw]

\* A Shift that pushes every shifted token as a tree of its own.
shiftStep_pushTokens(d, action, tokens) ==
    LET end == IF Len(tokens) > 0 THEN endOfResult(tokens[Len(tokens)])
               ELSE <<d.line, d.offset>>
    IN [kind |-> "continue",
        d |-> [d EXCEPT !.lr_states = Append(@, action.state),
                        !.results = @ \o tokens,
                        !.line = end[1],
                        !.offset = end[2]]]

\* case ActionKind.SHIFT
shiftStep(d, action, tokens) ==
    IF Len(tokens) = 1
    THEN [kind |-> "continue",
          d |-> [d EXCEPT !.lr_states = Append(@, action.state),
                          !.results = Append(@, tokens[1]),
                          !.line = tokens[1].endLine,
                          !.offset = tokens[1].endColumnExclusive]]
    ELSE LET end == IF Len(tokens) > 0 THEN endOfResult(tokens[Len(tokens)])
                    ELSE <<d.line, d.offset>>
             tree == Node("null", d.line, d.offset, end[1], end[2], tokens)
         IN [kind |-> "continue",
             d |-> [d EXCEPT !.lr_states = Append(@, action.state),
                             !.results = Append(@, tree),
                             !.line = end[1],
                             !.offset = end[2]]]

\* One pass of the while (true) loop of parse:
\* [kind |-> "continue", d], [kind |-> "failed", d] (failed() is called with
\* the locals d) or [kind |-> "return", value].
lrIterate(G, d) ==
    With(markValid(G, d), LAMBDA d1 :
    With(executePlan(G, d1.state, d1.lines, d1.line, d1.offset,
                     G.plans[d1.lr_states[Len(d1.lr_states)] + 1]),
         LAMBDA executionResult :
       IF executionResult.kind = "undefined" THEN [kind |-> "failed", d |-> d1]
       ELSE IF executionResult.kind # "action" THEN [kind |-> "return", value |-> executionResult]
       ELSE With([d1 EXCEPT !.state = executionResult.state], LAMBDA d2 :
            CASE executionResult.action.kind = "ACCEPT" -> acceptStep(d2)
              [] executionResult.action.kind = "REDUCE" ->
                    reduceStep(G, d2, executionResult.action)
              [] executionResult.action.kind = "SHIFT" ->
                    shiftStep(d2, executionResult.action, executionResult.tokens))))

\* The loop of parse with locals d, run to its return value.
RECURSIVE lrRun(_, _)
lrRun(G, d) ==
    With(lrIterate(G, d),
         LAMBDA r :
             IF r.kind = "continue" THEN lrRun(G, r.d)
             ELSE IF r.kind = "return" THEN r.value
             ELSE IF restarts(r.d)
                  THEN lrRun(G, restartLocals(r.d,
                                 textlinesUntil(r.d.lines, r.d.last_valid[1],
                                                r.d.last_valid[2]).val))
                  ELSE invalidTree(G, r.d))

\* mkParser(maximum_valid)(state, lines, line, offset)
lrParse(G, maximum_valid, state, lines, line, offset) ==
    lrRun(G, lrLocals(maximum_valid, state, lines, line, offset))

\* lrP(...).maximum_valid and lrP(...).maximum_invalid as parsers
lrP(G, maximum_valid) == [op |-> "lrP", G |-> G, maximum_valid |-> maximum_valid]

(***************************************************************************)
(* Result trees as inputs: every tree of at most MaxNodes nodes whose      *)
(* leaves are one column wide and laid out left to right on line 0.        *)
(***************************************************************************)
MaxNodes == 4

Types == {"A", "B", "null", "undefined"}

RECURSIVE TreesN(_, _)
RECURSIVE Forests(_, _)
\* the trees of exactly n nodes that start at column c
TreesN(n, c) ==
    IF n = 1 THEN {Node(ty, 0, c, 0, c + 1, <<>>) : ty \in Types}
    ELSE {Node(ty, 0, c, 0, f[Len(f)].endColumnExclusive, f) :
              ty \in Types, f \in Forests(n - 1, c)}

\* the non-empty sequences of adjacent trees of m nodes in total, from column c
Forests(m, c) ==
    UNION {UNION {{<<t>> \o f : f \in (IF m = k THEN {<<>>}
                                       ELSE Forests(m - k, t.endColumnExclusive))} :
                  t \in TreesN(k, c)} :
           k \in 1..m}

Trees == UNION {TreesN(n, 0) : n \in 1..MaxNodes}

(***************************************************************************)
(* Arguments of joinResults: up to two leaf results with any valid span on *)
(* the positions of lines 0..1 and columns 0..MaxJoinColumn, and start and *)
(* end overrides that are absent or one of those positions.                *)
(***************************************************************************)
MaxJoinColumn == 1

JoinPositions == {<<l, c>> : l \in 0..1, c \in 0..MaxJoinColumn}

JoinLeaves ==
    {n \in {Node(ty, st[1], st[2], e[1], e[2], <<>>) :
                ty \in {"A", "undefined"}, st \in JoinPositions, e \in JoinPositions} :
         resultCoordinatesAreValid(n.startLine, n.startColumnInclusive,
                                   n.endLine, n.endColumnExclusive)}

JoinArgs ==
    [results : {<<>>} \cup {<<a>> : a \in JoinLeaves} \cup {<<a, b>> : a, b \in JoinLeaves},
     type : {"A", "undefined"},
     start : {Absent} \cup JoinPositions,
     end : {Absent} \cup JoinPositions]

PruneArgs == [result : Trees]

(***************************************************************************)
(* Specification SpecTree: calls of the result-tree helpers of parser.ts.  *)
(***************************************************************************)
InitTree ==
    /\ \/ op = "joinResults" /\ arg \in JoinArgs
       \/ op = "pruneResult" /\ arg \in PruneArgs
    /\ pc = "call"
    /\ res = Pending
    /\ drv = <<>>
    /\ lazy = NoLazy

JoinResults ==
    /\ op = "joinResults" /\ pc = "call"
    /\ res' = joinResults(arg.results, arg.type, arg.start, arg.end)
    /\ pc' = "done"
    /\ UNCHANGED <<op, arg, drv, lazy>>

PruneResult ==
    /\ op = "pruneResult" /\ pc = "call"
    /\ res' = Ret(pruneResult(arg.result, <<>>))
    /\ pc' = "done"
    /\ UNCHANGED <<op, arg, drv, lazy>>

NextTree == JoinResults \/ PruneResult

SpecTree == InitTree /\ [][NextTree]_vars

(***************************************************************************)
(* Specification SpecSelect: calls of selectResults and selectResult.      *)
(***************************************************************************)
SelectPredicates == [labels : SUBSET {"A", "B"}, leaf : BOOLEAN]

SelectArgs == [result : Trees, predicate : SelectPredicates]

InitSelect ==
    /\ op \in {"selectResults", "selectResult"} /\ arg \in SelectArgs
    /\ pc = "call"
    /\ res = Pending
    /\ drv = <<>>
    /\ lazy = NoLazy

SelectResults ==
    /\ op = "selectResults" /\ pc = "call"
    /\ res' = Ret(selectResults(arg.result, arg.predicate))
    /\ pc' = "done"
    /\ UNCHANGED <<op, arg, drv, lazy>>

SelectResult ==
    /\ op = "selectResult" /\ pc = "call"
    /\ res' = selectResult(arg.result, arg.predicate)
    /\ pc' = "done"
    /\ UNCHANGED <<op, arg, drv, lazy>>

NextSelect == SelectResults \/ SelectResult

SpecSelect == InitSelect /\ [][NextSelect]_vars

(***************************************************************************)
(* Texts as inputs.                                                        *)
(***************************************************************************)
\* The valid positions of a view.
WidthOf(v) ==
    LET n == lineCountOf(v)
    IN IF n = 0 THEN 0
       ELSE CHOOSE w \in {countAt(v, l) : l \in 0..(n - 1)} :
                \A l \in 0..(n - 1) : countAt(v, l) <= w

PositionsOf(v) ==
    {q \in (0..lineCountOf(v)) \X (0..WidthOf(v)) : valid(v, q[1], q[2])}

\* The lexers used for windows: a run of one or more spaces, a run of zero
\* or more spaces, exactly two spaces, exactly four spaces.
Space == <<" ">>

spacesL == parserL(rep1P(<<literalP(Space, "undefined")>>))

optSpacesL == parserL(repP(<<literalP(Space, "undefined")>>))

indent2L == parserL(literalP(<<" ", " ">>, "undefined"))

indent4L == parserL(literalP(<<" ", " ", " ", " ">>, "undefined"))

\* The source lines cut-out windows are taken from.
WindowLines ==
    {<<>>, <<"a">>, <<" ", "a">>, <<" ", " ", "a">>, <<" ", " ">>, <<" ", " ", " ", "b">>}

\* Sources have at most MaxTextLines lines.
MaxTextLines == 3

RECURSIVE LineSeqs(_)
LineSeqs(n) ==
    IF n = 0 THEN {<<>>}
    ELSE LET shorter == LineSeqs(n - 1)
         IN shorter \cup {Append(ls, l) : ls \in {x \in shorter : Len(x) = n - 1},
                                           l \in WindowLines}

WindowSources == {createTextLines(ls) : ls \in LineSeqs(MaxTextLines)}

CutoutArgs ==
    {a \in [source : WindowSources, position : (0..MaxTextLines) \X (0..4),
            skipFirst : {spacesL, optSpacesL}, skipRemaining : {indent2L, spacesL, optSpacesL}] :
         valid(a.source, a.position[1], a.position[2])}

(***************************************************************************)
(* Specification SpecText: calls of the view constructors of textlines.ts. *)
(***************************************************************************)
InitText ==
    /\ op = "cutoutTextLines" /\ arg \in CutoutArgs
    /\ pc = "call"
    /\ res = Pending
    /\ drv = <<>>
    /\ lazy = NoLazy

CutoutTextLines ==
    /\ op = "cutoutTextLines" /\ pc = "call"
    /\ res' = cutoutTextLines(arg.source, arg.position[1], arg.position[2],
                              arg.skipFirst, arg.skipRemaining)
    /\ pc' = "done"
    /\ UNCHANGED <<op, arg, drv, lazy>>

NextText == CutoutTextLines

SpecText == InitText /\ [][NextText]_vars

(***************************************************************************)
(* Grammars as inputs of the LR driver.  lrP computes plans, goto and the  *)
(* final states from the grammar; the values below are those tables for    *)
(* three grammars, with the symbols written by name.                       *)
(***************************************************************************)
Digit == charP({"1", "2"})

\* A digit run labeled num; a "+" labeled plus; a "+" without a type.
numP == setTypeP("num", rep1P(<<Digit>>))

plusP == literalP(<<"+">>, "plus")

plusDiscardedP == literalP(<<"+">>, "undefined")

\* Every token advances the user state.
tpTokens == mkTerminalParsers(<< <<"num", bumpStateP(numP)>>, <<"+", bumpStateP(plusP)>> >>)

tpDiscardedPlus == mkTerminalParsers(<< <<"num", numP>>, <<"+", bumpStateP(plusDiscardedP)>> >>)

\* Two terminal parsers that both match a digit: or collects both candidates,
\* orGreedy keeps the first.
tpDigitTwice ==
    << mkTerminalParsers(<< <<"num", numP>> >>),
       mkTerminalParsers(<< <<"+", setTypeP("plus", charP({"+", "1"}))>> >>) >>

tpOr == orTerminalParsers(tpDigitTwice)

tpOrGreedy == orGreedyTerminalParsers(tpDigitTwice)

tpLetters ==
    mkTerminalParsers(<< <<"a", bumpStateP(literalP(<<"a">>, "a"))>>,
                         <<"b", bumpStateP(literalP(<<"b">>, "b"))>> >>)

\* E -> E + T | T ; T -> num   (rules 0, 1, 2)
ExprRules ==
    << [lhs |-> "E", rhs |-> <<"E", "+", "T">>], [lhs |-> "E", rhs |-> <<"T">>],
       [lhs |-> "T", rhs |-> <<"num">>] >>

ExprPlans(atEnd) ==
    << ReadPlan(<< <<{"num"}, ShiftPlan(3, 1)>> >>),
       ReadPlan(<< <<{EOF}, atEnd>>, <<{"+"}, ShiftPlan(4, 1)>> >>),
       ReadPlan(<< <<{EOF, "+"}, ReducePlan(1)>> >>),
       ReadPlan(<< <<{EOF, "+"}, ReducePlan(2)>> >>),
       ReadPlan(<< <<{"num"}, ShiftPlan(3, 1)>> >>),
       ReadPlan(<< <<{EOF, "+"}, ReducePlan(0)>> >>) >>

ExprGoto == (<<0, "E">> :> 1) @@ (<<0, "T">> :> 2) @@ (<<4, "T">> :> 5)

ExprGrammar(terminal_parsers, nonterminals, invalid, atEnd) ==
    [plans |-> ExprPlans(atEnd), rules |-> ExprRules, goto |-> ExprGoto,
     finalStates |-> {1, 2, 3, 5}, nonterminals |-> nonterminals,
     terminal_parsers |-> terminal_parsers, invalid |-> invalid]

ExprLabels == ("E" :> "E") @@ ("T" :> "T")

\* S -> X A ; X -> (empty) ; A -> a b | a   (rules 0, 1, 2, 3).  The plan of
\* state 1 reads two tokens before it shifts one or both of them.
MunchRules ==
    << [lhs |-> "S", rhs |-> <<"X", "A">>], [lhs |-> "X", rhs |-> <<>>],
       [lhs |-> "A", rhs |-> <<"ab">>], [lhs |-> "A", rhs |-> <<"a">>] >>

MunchPlans ==
    << ReducePlan(1),
       ReadPlan(<< <<{"a"}, ReadPlan(<< <<{"b"}, ShiftPlan(2, 2)>>,
                                        <<{EOF}, ShiftPlan(3, 1)>> >>)>> >>),
       ReducePlan(2),
       ReducePlan(3),
       ReducePlan(0),
       ReadPlan(<< <<{EOF}, AcceptPlan>> >>) >>

MunchGoto == (<<0, "X">> :> 1) @@ (<<1, "A">> :> 4) @@ (<<0, "S">> :> 5)

MunchGrammar ==
    [plans |-> MunchPlans, rules |-> MunchRules, goto |-> MunchGoto,
     finalStates |-> {3, 5}, nonterminals |-> ("S" :> "S") @@ ("A" :> "A"),
     terminal_parsers |-> tpLetters, invalid |-> "Invalid"]

\* S -> G a | b... ; T -> (empty)   (rules 0, 1).  A table whose plans read up
\* to three tokens before they shift two, one or none of them, accept with
\* any number of trees in the buffer, and reduce where goto is undefined or
\* the stack is too short; in state 7 two options hold the terminal b.
PeekRules == << [lhs |-> "S", rhs |-> <<"G", "a">>], [lhs |-> "T", rhs |-> <<>>] >>

PeekPlans ==
    << ReadPlan(<< <<{"a"}, ReadPlan(<< <<{"b"}, ReadPlan(<< <<{"a"}, ShiftPlan(1, 2)>>,
                                                            <<{EOF}, ShiftPlan(2, 0)>> >>)>>,
                                        <<{EOF}, ShiftPlan(3, 1)>> >>)>>,
                   <<{"b"}, ShiftPlan(7, 1)>>,
                   <<{EOF}, AcceptPlan>> >>),
       ReadPlan(<< <<{"a"}, ShiftPlan(3, 1)>> >>),
       ReadPlan(<< <<{"a"}, ShiftPlan(4, 1)>> >>),
       ReadPlan(<< <<{EOF}, ReducePlan(0)>>, <<{"a", "b"}, ReducePlan(1)>> >>),
       ReadPlan(<< <<{"b"}, ShiftPlan(3, 1)>> >>),
       ReadPlan(<< <<{EOF}, AcceptPlan>> >>),
       ReadPlan(<< <<{"b"}, ShiftPlan(3, 1)>> >>),
       ReadPlan(<< <<{"b"}, ShiftPlan(7, 1)>>, <<{EOF, "a", "b"}, AcceptPlan>> >>) >>

PeekGoto == (<<0, "S">> :> 5) @@ (<<3, "T">> :> 6)

PeekGrammar ==
    [plans |-> PeekPlans, rules |-> PeekRules, goto |-> PeekGoto,
     finalStates |-> {3, 5, 7}, nonterminals |-> ("S" :> "S"),
     terminal_parsers |-> tpLetters, invalid |-> "Invalid"]

\* The grammars parsed with.  The sixth one has a conflict at the end of
\* input: its plan holds Error where the others accept.
Grammars ==
    { ExprGrammar(tpTokens, ExprLabels, "Invalid", AcceptPlan),
      ExprGrammar(tpTokens, ExprLabels, "absent", AcceptPlan),
      ExprGrammar(tpDiscardedPlus, ("E" :> "E"), "null", AcceptPlan),
      ExprGrammar(tpOr, ExprLabels, "Invalid", AcceptPlan),
      ExprGrammar(tpOrGreedy, ExprLabels, "Invalid", AcceptPlan),
      ExprGrammar(tpTokens, ExprLabels, "Invalid", ErrorPlan),
      MunchGrammar, PeekGrammar }

LRTexts ==
    { createTextLines(ls) : ls \in
        { <<>>, <<<<>>>>, <<<<"1", "+", "2">>>>, <<<<"1", "+", "2", "+">>>>, <<<<"1", "+">>>>, <<<<"+", "1">>>>, <<<<"1", "2", "+", "1">>>>, <<<<"1", "+", "2">>, <<"+", "1">>>>,
          <<<<"1", "a">>>>, <<<<"a", "b">>>>, <<<<"a">>>>, <<<<"a", "x">>>>,
          <<<<"a", "b", "a">>>>, <<<<"a", "b", "a", "b">>>>, <<<<"b">>>>, <<<<"b", "b">>>> } }

(***************************************************************************)
(* Parsers and texts as inputs of parser calls.                            *)
(***************************************************************************)
LetterA == setTypeP("A", charP({"a"}))

LetterB == charP({"b"})

Letter == setTypeP("A", charP({"a", "b", "x"}))

Plus == literalP(<<"+">>, "plus")

\* Parsers built without sectionP and lrP.
PlainParsers ==
    { emptyP, failP, anyCharP, newlineP, eofP, bolP, eolP,
      LetterA, bumpStateP(LetterA),
      seqP(<<LetterA, LetterB>>), seqP(<<LetterA, LetterB, newlineP, LetterA>>),
      seqP(<<bumpStateP(LetterA), bumpStateP(LetterB)>>),
      orP(<<LetterB, LetterA>>), orP(<<>>),
      optP(<<LetterA>>), optP(<<LetterB, newlineP>>),
      repP(<<LetterA>>), repP(<<orP(<<Letter, newlineP>>)>>), repP(<<emptyP>>), repP(<<>>),
      joinP(bumpStateP(LetterA), bumpStateP(Plus)),
      repP(<<bumpStateP(Plus), bumpStateP(LetterA)>>),
      orP(<<seqP(<<bumpStateP(LetterA), bumpStateP(LetterA)>>), Letter>>),
      repP(<<bumpStateP(Letter)>>),
      rep1P(<<LetterA>>), rep1P(<<Letter, optP(<<newlineP>>)>>),
      joinP(LetterA, Plus), joinP(Letter, newlineP),
      literalP(<<"a", "b">>, "AB"), literalP(<<"a", "b">>, "undefined"), literalP(<<>>, "null"),
      literalsP(<<<<"a", "b">>, <<"a">>>>),
      notP(LetterA), notP(eofP), lookaheadP(LetterA), lookaheadP(newlineP),
      seqP(<<notP(LetterB), Letter, lookaheadP(eolP)>>) }

\* The parts section parsers are built from.
Bullets ==
    { literalP(<<"-", " ", "x">>, "Bullet"), literalP(<<"-">>, "Bullet"),
      literalP(<<"-">>, "undefined") }

BodyChars == repP(<<orP(<<Letter, newlineP, charP({" ", "-"})>>)>>)

Bodies ==
    { BodyChars,
      setTypeP("Body", seqP(<<repP(<<orP(<<anyCharP, newlineP>>)>>), emptyP>>)),
      seqP(<<optP(<<newlineP>>), Letter>>),
      seqP(<<newlineP,
             sectionP(literalP(<<"-">>, "Bullet"), BodyChars, spacesL, indent2L, failP)>>),
      emptyP, failP }

SectionLexers ==
    { <<spacesL, indent4L>>, <<spacesL, indent2L>>, <<spacesL, spacesL>>,
      <<optSpacesL, optSpacesL>> }

Afters ==
    { failP, literalP(<<"e", "n", "d">>, "End"), bumpStateP(setTypeP("After", anyCharP)),
      newlineP }

SectionParsers ==
    { sectionP(bulletP, bodyP, lexers[1], lexers[2], afterP) :
        bulletP \in Bullets, bodyP \in Bodies, lexers \in SectionLexers, afterP \in Afters }

LRParsers == { lrP(G, maximum_valid) : G \in Grammars, maximum_valid \in BOOLEAN }

Parsers == PlainParsers \cup SectionParsers \cup LRParsers

\* The lines of the section example: a bullet line, two indented lines, "end".
SectionExample == <<<<"-", " ", "x">>, <<" ", " ", " ", " ", "a">>, <<" ", " ", " ", " ", "b">>, <<"e", "n", "d">>>>

ParseTexts ==
    LRTexts \cup
    { createTextLines(ls) : ls \in
        { SectionExample, <<<<"-">>, <<"a">>, <<" ", " ", "b">>>>,
          <<<<"-">>, <<" ", " ", "a">>, <<" ", " ", " ", "b">>, <<"a">>>>, <<<<"-", " ", "a">>, <<" ", " ", "b">>>>, <<<<"-">>, <<" ", " ", "-">>, <<" ", " ", " ", " ", "a">>, <<"b">>>>, <<<<"-", "x">>, <<" ", " ", "a">>>>, <<<<"a", "b">>, <<"a">>>>, <<<<"a", "+", "a", "+">>>> } }

\* The positions a parser is entered at: the valid positions of the text and
\* the position after its last line, which valid rejects on a text with lines.
EntryPositions(lines) == PositionsOf(lines) \cup {<<lineCountOf(lines), 0>>}

ParseArgs ==
    UNION { [parser : Parsers, lines : {lines}, position : EntryPositions(lines),
             state : 0..(NStates - 1)] : lines \in ParseTexts }

(***************************************************************************)
(* Specification SpecParse: one call parser(state, lines, line, column).   *)
(***************************************************************************)
InitParse ==
    /\ op = "parse" /\ arg \in ParseArgs
    /\ pc = "call"
    /\ res = Pending
    /\ drv = <<>>
    /\ lazy = NoLazy

ParseCall ==
    /\ op = "parse" /\ pc = "call"
    /\ res' = Parse(arg.parser, arg.state, arg.lines, arg.position[1], arg.position[2])
    /\ pc' = "done"
    /\ UNCHANGED <<op, arg, drv, lazy>>

NextParse == ParseCall

SpecParse == InitParse /\ [][NextParse]_vars

(***************************************************************************)
(* Specification SpecLR: one call of an LR parser, a step per pass of the  *)
(* loop of parse.  drv holds the frames of parse: failed() of a maximum-   *)
(* valid parse calls the maximum-invalid parser, whose frame is pushed.    *)
(***************************************************************************)
LRArgs ==
    UNION { [G : Grammars, maximum_valid : BOOLEAN, lines : {lines},
             position : PositionsOf(lines), state : 0..(NStates - 1)] : lines \in LRTexts }

InitLR ==
    /\ op = "lrP" /\ arg \in LRArgs
    /\ pc = "loop"
    /\ res = Pending
    /\ drv = <<lrLocals(arg.maximum_valid, arg.state, arg.lines,
                        arg.position[1], arg.position[2])>>
    /\ lazy = NoLazy

\* The locals of the running call of parse.
Frame == drv[Len(drv)]

\* A pass of the loop that ends in break: a Reduce or a Shift was done.
LRContinue ==
    /\ op = "lrP" /\ pc = "loop"
    /\ LET r == lrIterate(arg.G, Frame)
       IN /\ r.kind = "continue"
          /\ drv' = [drv EXCEPT ![Len(drv)] = r.d]
    /\ UNCHANGED <<op, arg, pc, res, lazy>>

\* A pass of the loop that returns from inside the switch (Accept), or throws.
LRReturn ==
    /\ op = "lrP" /\ pc = "loop"
    /\ LET r == lrIterate(arg.G, Frame)
       IN /\ r.kind = "return"
          /\ res' = r.value
    /\ pc' = "done"
    /\ UNCHANGED <<op, arg, drv, lazy>>

\* failed() of a maximum-valid parse with last_valid recorded: the call
\* mkParser(false)(startState, linesUntil, startLine, startOffset) begins.
LRRestart ==
    /\ op = "lrP" /\ pc = "loop"
    /\ LET r == lrIterate(arg.G, Frame)
       IN /\ r.kind = "failed"
          /\ restarts(r.d)
          /\ drv' = Append([drv EXCEPT ![Len(drv)] = r.d],
                           restartLocals(r.d, textlinesUntil(r.d.lines, r.d.last_valid[1],
                                                             r.d.last_valid[2]).val))
    /\ UNCHANGED <<op, arg, pc, res, lazy>>

\* failed() otherwise: undefined, or the tree labeled invalid.
LRFailed ==
    /\ op = "lrP" /\ pc = "loop"
    /\ LET r == lrIterate(arg.G, Frame)
       IN /\ r.kind = "failed"
          /\ ~restarts(r.d)
          /\ drv' = [drv EXCEPT ![Len(drv)] = r.d]
          /\ res' = invalidTree(arg.G, r.d)
    /\ pc' = "failed"
    /\ UNCHANGED <<op, arg, lazy>>

NextLR == LRContinue \/ LRReturn \/ LRRestart \/ LRFailed

SpecLR == InitLR /\ [][NextLR]_vars

(***************************************************************************)
(* Claims about the result-tree helpers (checked under SpecTree).          *)
(***************************************************************************)
\* The cursor of joinResults before result i: the computed start for the
\* first result, the end of result i - 1 otherwise.
JoinCursorBefore(results, start, i) ==
    IF i = 1 THEN start ELSE endOfResult(results[i - 1])

\* C5: joinResults throws when results is empty and start or end is
\* missing, when some result starts before the cursor (the computed start,
\* then the end of the previous result), or when the cursor after the last
\* result lies after the computed end; in every other case it returns a
\* node whose span is exactly the computed start and end.
Thm_C5_JoinCursor ==
    (op = "joinResults" /\ res # Pending) =>
        LET results == arg.results
            missing == results = <<>> /\ (arg.start = Absent \/ arg.end = Absent)
            start == IF arg.start = Absent THEN startOfResult(results[1]) ELSE arg.start
            end == IF arg.end = Absent THEN endOfResult(results[Len(results)]) ELSE arg.end
            startsBefore == \E i \in 1..Len(results) :
                LET cursor == JoinCursorBefore(results, start, i)
                IN ~PosLeq(cursor[1], cursor[2], results[i].startLine,
                           results[i].startColumnInclusive)
            last == JoinCursorBefore(results, start, Len(results) + 1)
            overruns == ~PosLeq(last[1], last[2], end[1], end[2])
        IN IF missing THEN res = Throw
           ELSE IF startsBefore \/ overruns THEN res = Throw
           ELSE /\ res.kind = "ret"
                /\ startOfResult(res.val) = start
                /\ endOfResult(res.val) = end

\* C5 witness: the second of two results starts at or after the computed
\* start but before the end of the first one, and joinResults has thrown.
Wit_C5_SecondBeforeCursor ==
    /\ op = "joinResults" /\ res = Throw
    /\ Len(arg.results) = 2 /\ arg.start = Absent /\ arg.end # Absent
    /\ PosLeq(arg.results[1].startLine, arg.results[1].startColumnInclusive,
              arg.results[2].startLine, arg.results[2].startColumnInclusive)
    /\ ~PosLeq(arg.results[1].endLine, arg.results[1].endColumnExclusive,
               arg.results[2].startLine, arg.results[2].startColumnInclusive)
    /\ PosLeq(arg.results[2].endLine, arg.results[2].endColumnExclusive,
              arg.end[1], arg.end[2])

\* C6: prune is idempotent: pruning each tree of prune(t) and concatenating
\* the outcomes gives prune(t) again.
Thm_C6_PruneIdempotent ==
    (op = "pruneResult" /\ res.kind = "ret") =>
        Concat([i \in 1..Len(res.val) |-> pruneResult(res.val[i], <<>>)]) = res.val

\* C6 witness: a Labeled root over a Structural child over a Structural
\* grandchild that holds a Labeled node has been pruned.
Wit_C6_NestedStructural ==
    /\ op = "pruneResult" /\ res.kind = "ret"
    /\ arg.result.type \in {"A", "B"}
    /\ Len(arg.result.children) = 1
    /\ arg.result.children[1].type = "null"
    /\ Len(arg.result.children[1].children) = 1
    /\ arg.result.children[1].children[1].type = "null"
    /\ Len(res.val) = 1 /\ Len(res.val[1].children) = 1

\* The nodes of a list of trees in document order, each with the number of
\* its proper ancestors: <<depth, type, start, end>>.
RECURSIVE NodesWithDepth(_, _)
NodesWithDepth(trees, depth) ==
    IF trees = <<>> THEN <<>>
    ELSE LET t == Head(trees)
         IN <<<<depth, t.type, startOfResult(t), endOfResult(t)>>>>
            \o NodesWithDepth(t.children, depth + 1)
            \o NodesWithDepth(Tail(trees), depth)

\* The Labeled nodes of a list of trees that lie under no Discarded node,
\* in document order, each with the number of its Labeled proper ancestors.
RECURSIVE LabeledWithDepth(_, _)
LabeledWithDepth(trees, depth) ==
    IF trees = <<>> THEN <<>>
    ELSE LET t == Head(trees)
             here == IF t.type = "undefined" THEN <<>>
                     ELSE IF t.type = "null" THEN LabeledWithDepth(t.children, depth)
                     ELSE <<<<depth, t.type, startOfResult(t), endOfResult(t)>>>>
                          \o LabeledWithDepth(t.children, depth + 1)
         IN here \o LabeledWithDepth(Tail(trees), depth)

\* C7: the nodes of prune(t), at every depth and in document order, are
\* exactly the Labeled nodes of t that are not below a Discarded node, each
\* with its own span and nested under its nearest Labeled ancestor.
Thm_C7_PruneLabeledOnly ==
    (op = "pruneResult" /\ res.kind = "ret") =>
        NodesWithDepth(res.val, 0) = LabeledWithDepth(<<arg.result>>, 0)

\* C7 witness: a Discarded node with a Labeled child, next to a Labeled
\* node, below a Structural root has been pruned to the one Labeled node.
Wit_C7_DiscardedSubtree ==
    /\ op = "pruneResult" /\ res.kind = "ret"
    /\ arg.result.type = "null"
    /\ Len(arg.result.children) = 2
    /\ arg.result.children[1].type = "undefined"
    /\ Len(arg.result.children[1].children) = 1
    /\ arg.result.children[1].children[1].type = "A"
    /\ arg.result.children[2].type = "B"
    /\ Len(res.val) = 1 /\ res.val[1].type = "B"

(***************************************************************************)
(* Claims about the views (checked under SpecText).                        *)
(***************************************************************************)
\* What a lexer returns, as a number (the lexers of the model do not throw).
LexerValue(lexer, text, column) == applyLexer(lexer, text, column).val

\* The lines after `line` that a window takes: the number of consecutive
\* source lines from line + 1 on for which skipRemaining is not negative.
RECURSIVE TakenAfter(_, _, _)
TakenAfter(source, i, skipRemaining) ==
    IF i >= lineCountOf(source) THEN 0
    ELSE IF LexerValue(skipRemaining, lineAt(source, i).val, 0) < 0 THEN 0
    ELSE 1 + TakenAfter(source, i + 1, skipRemaining)

\* The window w is the cut-out of source at (line, column) when the first
\* window line starts `first` columns after column.
IsCutout(w, source, line, column, first, skipRemaining) ==
    /\ w.kind = "window"
    /\ shift(w, 0, 0) = <<line, column + first>>
    /\ lineCountOf(w) = 1 + TakenAfter(source, line + 1, skipRemaining)
    /\ \A l \in 0..(lineCountOf(w) - 1) :
           LET text == lineAt(source, line + l).val
               skip == IF l = 0 THEN column + first
                       ELSE LexerValue(skipRemaining, text, 0)
           IN /\ skip >= 0 /\ skip <= Len(text)
              /\ lineAt(w, l).val = Slice(text, skip, Len(text))
    /\ \A q \in PositionsOf(w) :
           LET sq == shift(w, q[1], q[2])
           IN /\ valid(source, sq[1], sq[2])
              /\ q[2] < countAt(w, q[1]) =>
                     lineAt(w, q[1]).val[q[2] + 1] = lineAt(source, sq[1]).val[sq[2] + 1]
              /\ \A r \in PositionsOf(w) :
                     LET sr == shift(w, r[1], r[2])
                     IN PosLeq(q[1], q[2], r[1], r[2]) <=> PosLeq(sq[1], sq[2], sr[1], sr[2])

\* C10 as stated: on a non-empty source the window's line 0 starts at
\* column col + skipFirst(lineAt(line), col), and the rest of the claim.
Cex_C10_SkipFirstAdded ==
    (op = "cutoutTextLines" /\ res # Pending /\ lineCountOf(arg.source) > 0) =>
        /\ res.kind = "ret"
        /\ IsCutout(res.val, arg.source, arg.position[1], arg.position[2],
                    LexerValue(arg.skipFirst, lineAt(arg.source, arg.position[1]).val,
                               arg.position[2]),
                    arg.skipRemaining)

\* C10 amended: on a non-empty source the window's line 0 is the rest of
\* source line `line` from column col + max(skipFirst(lineAt(line), col), 0)
\* (a failing skipFirst skips nothing), followed by each next source line
\* with its first skipRest columns removed, up to the first line where
\* skipRest is negative; shift maps every valid window position to a valid
\* source position, keeps the order of positions, and the window character
\* at a position is the source character at its shifted position.
Thm_C10_CutoutWindow ==
    (op = "cutoutTextLines" /\ res # Pending /\ lineCountOf(arg.source) > 0) =>
        /\ res.kind = "ret"
        /\ IsCutout(res.val, arg.source, arg.position[1], arg.position[2],
                    Max(LexerValue(arg.skipFirst, lineAt(arg.source, arg.position[1]).val,
                                   arg.position[2]), 0),
                    arg.skipRemaining)

\* C10 witness: a window of two lines was cut out after skipFirst failed,
\* with a positive number of columns removed from the second line, and a
\* third source line was left out.
Wit_C10_FailedSkipFirst ==
    /\ op = "cutoutTextLines" /\ res.kind = "ret"
    /\ lineCountOf(arg.source) > 0
    /\ LexerValue(arg.skipFirst, lineAt(arg.source, arg.position[1]).val, arg.position[2]) < 0
    /\ res.val.kind = "window"
    /\ lineCountOf(res.val) = 2
    /\ res.val.columns[2] > 0
    /\ lineCountOf(arg.source) > arg.position[1] + 2

(***************************************************************************)
(* Claims about parser calls (checked under SpecParse).                    *)
(***************************************************************************)
\* The children of t start at or after the previous child's end, in order.
ChildrenInOrder(t) ==
    \A i \in 2..Len(t.children) :
        LET prev == endOfResult(t.children[i - 1])
            next == startOfResult(t.children[i])
        IN PosLeq(prev[1], prev[2], next[1], next[2])

\* The children of t lie inside the span of t.
ChildrenInside(t) ==
    \A i \in 1..Len(t.children) :
        LET c == t.children[i]
        IN /\ PosLeq(t.startLine, t.startColumnInclusive, c.startLine, c.startColumnInclusive)
           /\ PosLeq(c.endLine, c.endColumnExclusive, t.endLine, t.endColumnExclusive)

RECURSIVE WellFormed(_)
WellFormed(t) ==
    /\ PosLeq(t.startLine, t.startColumnInclusive, t.endLine, t.endColumnExclusive)
    /\ ChildrenInOrder(t)
    /\ ChildrenInside(t)
    /\ \A i \in 1..Len(t.children) : WellFormed(t.children[i])

\* C1: a successful call of a library parser at a valid position returns a
\* tree that starts at the entry position, ends at or after its start, and
\* at every node has its children in non-decreasing order inside the node.
Thm_C1_SpanInvariant ==
    (op = "parse" /\ pc = "done" /\ res.kind = "ok") =>
        /\ startOfResult(res.result) = arg.position
        /\ WellFormed(res.result)

\* C1 witness: an LR parser entered after column 0 returned a tree with a
\* Reduce node of three children, the first a Reduce node itself.
Wit_C1_NestedLRTree ==
    /\ op = "parse" /\ pc = "done" /\ res.kind = "ok"
    /\ arg.parser.op = "lrP"
    /\ arg.position[2] > 0
    /\ Len(res.result.children) = 3
    /\ Len(res.result.children[1].children) > 0

RECURSIVE NoDiscardedChild(_)
NoDiscardedChild(t) ==
    \A i \in 1..Len(t.children) :
        t.children[i].type # "undefined" /\ NoDiscardedChild(t.children[i])

\* C4: no node of a tree returned by a library parser, the LR parsers
\* included, has a Discarded node (type undefined) among its children.
Cex_C4_NoDiscardedChild ==
    (op = "parse" /\ pc = "done" /\ res.kind = "ok") => NoDiscardedChild(res.result)

\* The section call of the state, up to the shifted body.
SectionCall ==
    sectionBody(arg.parser, arg.state, arg.lines, arg.position[1], arg.position[2])

IsSectionSuccess ==
    op = "parse" /\ pc = "done" /\ arg.parser.op = "sectionP" /\ res.kind = "ok"

\* The text under the shifted span s in the source equals the text under
\* the windowed span w in the window.
SameText(source, window, w, s) ==
    LET seen == textlinesOfResult(window, w)
    IN seen.kind = "ret" /\ textlinesOfResult(source, s) = seen

\* No window line after the first line of w, up to the line w ends in, had
\* columns removed.
Unindented(window, w) ==
    window.kind = "window" =>
        \A l \in (w.startLine + 1)..w.endLine :
            l < Len(window.columns) => window.columns[l + 1] = 0

RECURSIVE AllSameText(_, _, _, _)
AllSameText(source, window, w, s) ==
    /\ SameText(source, window, w, s)
    /\ \A i \in 1..Len(w.children) :
           AllSameText(source, window, w.children[i], s.children[i])

RECURSIVE UnindentedSameText(_, _, _, _)
UnindentedSameText(source, window, w, s) ==
    /\ Unindented(window, w) <=> SameText(source, window, w, s)
    /\ \A i \in 1..Len(w.children) :
           UnindentedSameText(source, window, w.children[i], s.children[i])

\* C8 as stated: after a sectionP success every node of the shifted body
\* subtree, whether its span is on one line or crosses lines, covers the
\* same text in the source as its windowed span covers in the window.
Cex_C8_EverySpanSameText ==
    IsSectionSuccess =>
        AllSameText(arg.lines, SectionCall.bodyLines,
                    SectionCall.windowed.result, SectionCall.bodyResult)

\* C8: after a sectionP success a node of the shifted body subtree covers
\* the same text in the source as its windowed span covers in the window
\* exactly when no window line after the span's first line, up to the line
\* the span ends in, had columns removed; every single-line span is such.
Thm_C8_ShiftedSpanText ==
    IsSectionSuccess =>
        /\ SectionCall.kind = "body"
        /\ SectionCall.bodyResult.type # "undefined" =>
               \E i \in 1..Len(res.result.children) :
                   res.result.children[i] = SectionCall.bodyResult
        /\ UnindentedSameText(arg.lines, SectionCall.bodyLines,
                              SectionCall.windowed.result, SectionCall.bodyResult)

\* C8 witness: the body's tree crosses from the bullet line into a line that
\* lost no columns, starts at a shifted column, and has a child of one
\* character.
Wit_C8_MultiLineUnindented ==
    /\ IsSectionSuccess
    /\ LET w == SectionCall.windowed.result
           window == SectionCall.bodyLines
       IN /\ window.kind = "window"
          /\ w.endLine > w.startLine
          /\ Unindented(window, w)
          /\ window.columns[1] > 0
          /\ Len(w.children) > 0

\* The section example: the bullet "- x", spaces, a 4-space indentation.
IsExampleCall ==
    /\ op = "parse" /\ pc = "done"
    /\ arg.lines = createTextLines(SectionExample)
    /\ arg.position = <<0, 0>>
    /\ arg.parser.op = "sectionP"
    /\ arg.parser.bulletP = literalP(<<"-", " ", "x">>, "Bullet")
    /\ arg.parser.spacesL = spacesL
    /\ arg.parser.indentationL = indent4L

\* The body parser takes every character and line break, afterP fails.
TakesWholeBody ==
    /\ arg.parser.bodyP \in {p \in Bodies : p.op \in {"repP", "setTypeP"}}
    /\ arg.parser.afterP = failP

\* C9 as stated: in the section example the body's (0,0) maps to source
\* (1,4), the body child spans [01:04 to 02:05[ and the section node spans
\* [00:00 to 02:05[.
Cex_C9_BodyStartsAfterIndentation ==
    (IsExampleCall /\ TakesWholeBody /\ res.kind = "ok") =>
        /\ shift(SectionCall.bodyLines, 0, 0) = <<1, 4>>
        /\ startOfResult(SectionCall.bodyResult) = <<1, 4>>
        /\ endOfResult(SectionCall.bodyResult) = <<2, 5>>
        /\ startOfResult(res.result) = <<0, 0>>
        /\ endOfResult(res.result) = <<2, 5>>

\* C9: in the section example the body's (0,0) maps to source (0,3), the
\* end of the bullet, and the window's (1,0) maps to (1,4); a body that
\* takes the whole window spans [00:03 to 02:05[ and the section node is
\* Structural, spans [00:00 to 02:05[ and holds the bullet [00:00 to 00:03[
\* and the body.
Thm_C9_BodyStartsAtBulletEnd ==
    /\ (IsExampleCall /\ res.kind = "ok") =>
           /\ shift(SectionCall.bodyLines, 0, 0) = <<0, 3>>
           /\ shift(SectionCall.bodyLines, 1, 0) = <<1, 4>>
           /\ startOfResult(SectionCall.bodyResult) = <<0, 3>>
           /\ startOfResult(res.result) = <<0, 0>>
    /\ (IsExampleCall /\ TakesWholeBody) =>
           /\ res.kind = "ok"
           /\ endOfResult(SectionCall.bodyResult) = <<2, 5>>
           /\ res.result.type = "null"
           /\ endOfResult(res.result) = <<2, 5>>
           /\ res.result.children =
                  <<Node("Bullet", 0, 0, 0, 3, <<>>), SectionCall.bodyResult>>

\* C9 witness: the example was parsed by a body that takes the whole window
\* and returns a Structural tree.
Wit_C9_ExampleParsed ==
    /\ IsExampleCall /\ TakesWholeBody /\ res.kind = "ok"
    /\ SectionCall.bodyResult.type = "null"
    /\ Len(SectionCall.bodyResult.children) = 2

(***************************************************************************)
(* Claims about the LR driver's restart and failure (checked under SpecLR).*)
(***************************************************************************)
\* C2: a maximum-valid parse that fails with lastValid = Q recorded returns
\* what the maximum-invalid parser returns from the entry state and
\* position on the input truncated at Q, and a call restarts at most once.
Thm_C2_RestartEqualsTruncatedParse ==
    op = "lrP" =>
        /\ Len(drv) <= 2
        /\ (pc = "failed" /\ Len(drv) = 1) =>
               ~(arg.maximum_valid /\ drv[1].last_valid # Absent)
        /\ Len(drv) = 2 =>
               LET Q == drv[1].last_valid
               IN /\ drv[1].maximum_valid /\ Q # Absent
                  /\ ~drv[2].maximum_valid
                  /\ pc # "loop" =>
                         res = lrParse(arg.G, FALSE, arg.state,
                                       textlinesUntil(arg.lines, Q[1], Q[2]).val,
                                       arg.position[1], arg.position[2])

\* C2 witness: the maximum-valid parser failed past lastValid, restarted,
\* and the re-parse accepted a tree with a user state other than the entry's.
Wit_C2_RestartAccepted ==
    /\ op = "lrP" /\ pc = "done" /\ Len(drv) = 2
    /\ res.kind = "ok"
    /\ res.state # arg.state
    /\ drv[1].last_valid # <<drv[1].line, drv[1].offset>>
    /\ Len(res.result.children) = 3

\* Number of token leaves (labeled by a terminal) in a sequence of trees.
RECURSIVE CountTokens(_)
CountTokens(trees) ==
    IF trees = <<>> THEN 0
    ELSE (IF Head(trees).type \in {"num", "plus", "a", "b"} THEN 1 ELSE 0)
         + CountTokens(Head(trees).children) + CountTokens(Tail(trees))

\* C3: a failure without restart returns undefined when no invalid label
\* was given, otherwise the tree labeled invalid from the entry position to
\* the cursor, which is the end of the last tree of the result buffer, with
\* the buffer as children and the user state as of the last shifted token;
\* nothing is thrown.
Thm_C3_FailureValue ==
    pc = "failed" =>
        LET d == Frame
        IN /\ ~(d.maximum_valid /\ d.last_valid # Absent)
           /\ res.kind # "throw"
           /\ arg.G.invalid = "absent" => res = None
           /\ arg.G.invalid # "absent" =>
                  /\ res.kind = "ok"
                  /\ res.result.type = arg.G.invalid
                  /\ startOfResult(res.result) = arg.position
                  /\ endOfResult(res.result) = <<d.line, d.offset>>
                  /\ res.result.children = d.results
                  /\ res.state = d.state
           /\ <<d.line, d.offset>> =
                  IF d.results = <<>> THEN arg.position
                  ELSE endOfResult(d.results[Len(d.results)])
           /\ arg.G.terminal_parsers \in {tpTokens, tpLetters} =>
                  d.state = (arg.state + CountTokens(d.results)) % NStates

\* C3 witness: the maximum-invalid parser failed after shifting tokens, with
\* two trees in the buffer and a user state other than the entry's.
Wit_C3_InvalidTree ==
    /\ pc = "failed" /\ ~arg.maximum_valid
    /\ arg.G.invalid = "Invalid"
    /\ Len(Frame.results) = 2
    /\ res.kind = "ok" /\ res.state # arg.state
    /\ Frame.last_valid # Absent

\* The afterP call of the section call of the state: afterP run on the
\* source, with the body's state, at the end of the shifted body.
AfterCall(b) ==
    Parse(arg.parser.afterP, b.windowed.state, arg.lines,
          b.bodyResult.endLine, b.bodyResult.endColumnExclusive)

\* The results that are not Discarded, in order.
Kept(results) == SelectSeq(results, LAMBDA r : r.type # "undefined")

\* A sectionP call entered at column 0 whose bullet and body succeeded.
SectionBodyDone ==
    /\ op = "parse" /\ pc = "done" /\ arg.parser.op = "sectionP"
    /\ arg.position[2] = 0
    /\ valid(arg.lines, arg.position[1], arg.position[2])
    /\ SectionCall.kind = "body"

\* C11: when the bullet and the body of a section succeeded, sectionP
\* succeeds whether afterP, run on the source at the end of the shifted
\* body, succeeds or returns None: the result is a Structural node that
\* starts at the entry position, has the bullet, the body and, only when
\* afterP succeeded, afterP's result as children (Discarded ones left
\* out), and ends at afterP's end when afterP succeeded and at the end of
\* the shifted body otherwise.
Thm_C11_AfterOptional ==
    SectionBodyDone =>
        With(SectionCall, LAMBDA b :
        With(AfterCall(b), LAMBDA after :
            after.kind \in {"ok", "none"} =>
                /\ res.kind = "ok"
                /\ res.result.type = "null"
                /\ startOfResult(res.result) = arg.position
                /\ res.result.children =
                       Kept(IF after.kind = "ok"
                            THEN <<b.bullet.result, b.bodyResult, after.result>>
                            ELSE <<b.bullet.result, b.bodyResult>>)
                /\ endOfResult(res.result) =
                       IF after.kind = "ok" THEN endOfResult(after.result)
                       ELSE endOfResult(b.bodyResult)))

\* C11 witness: a section whose body was parsed in a window and moved by
\* shiftResult, whose afterP returned None at the end of the shifted body,
\* succeeded with the two children bullet and body.
Wit_C11_AfterFailed ==
    /\ SectionBodyDone
    /\ SectionCall.bodyLines.kind = "window"
    /\ SectionCall.bodyResult # SectionCall.windowed.result
    /\ arg.parser.afterP # failP
    /\ AfterCall(SectionCall).kind = "none"
    /\ res.kind = "ok"
    /\ Len(res.result.children) = 2

\* C12: a successful sectionP call returns the state afterP returned whenever
\* afterP succeeded, and the state the body returned otherwise.
Cex_C12_ReturnsAfterState ==
    (SectionBodyDone /\ res.kind = "ok") =>
        With(SectionCall, LAMBDA b :
        With(AfterCall(b), LAMBDA after :
            res.state = IF after.kind = "ok" THEN after.state ELSE b.windowed.state))

\* A call of the parser repP(...) at a valid position; res is its outcome,
\* Loop when the call does not return.
IsRepCall ==
    /\ op = "parse" /\ pc = "done" /\ arg.parser.op = "repP"
    /\ valid(arg.lines, arg.position[1], arg.position[2])

\* C13: for every list of inner parsers, those that succeed without
\* consuming input and the empty list included, a repP call at a valid
\* position returns a success: a Structural node from the entry position to
\* a position at which the inner sequence returns None.
Cex_C13_RepReturnsSuccess ==
    IsRepCall =>
        /\ res.kind = "ok"
        /\ res.result.type = "null"
        /\ startOfResult(res.result) = arg.position
        /\ Parse(arg.parser.parser, res.state, arg.lines,
                 res.result.endLine, res.result.endColumnExclusive) = None

\* A call of eofP.
IsEofCall == op = "parse" /\ pc = "done" /\ arg.parser = eofP

\* The entry position is the last valid position of the text.
AtEndOfText ==
    /\ valid(arg.lines, arg.position[1], arg.position[2])
    /\ \A q \in PositionsOf(arg.lines) :
           PosLeq(arg.position[1], arg.position[2], q[1], q[2]) => q = arg.position

\* C14 as stated: at every position whose line equals lineCount eofP does
\* not throw but succeeds with a zero-length Discarded node and the state
\* unchanged.
Cex_C14_SucceedsAtLineCount ==
    (IsEofCall /\ arg.position[1] = lineCountOf(arg.lines)) =>
        res = Ok(arg.state, Node("undefined", arg.position[1], arg.position[2],
                                 arg.position[1], arg.position[2], <<>>))

\* C14: eofP asserts the entry position and throws when it is not valid,
\* which on a text with lines includes every position whose line equals
\* lineCount.  At a valid position it succeeds, with a zero-length
\* Discarded node at the entry position and the state unchanged, exactly
\* when no valid position follows the entry position (the end of the last
\* line, or (0, 0) of the empty text, where line equals lineCount), and
\* returns None otherwise.
Thm_C14_EofAtEndOfText ==
    IsEofCall =>
        IF ~valid(arg.lines, arg.position[1], arg.position[2]) THEN res = Throw
        ELSE IF AtEndOfText
        THEN res = Ok(arg.state, Node("undefined", arg.position[1], arg.position[2],
                                      arg.position[1], arg.position[2], <<>>))
        ELSE res = None

\* C14 witness: eofP was called on a text with lines at the position
\* (lineCount, 0) and threw.
Wit_C14_ThrowsAfterLastLine ==
    /\ IsEofCall
    /\ lineCountOf(arg.lines) > 0
    /\ arg.position = <<lineCountOf(arg.lines), 0>>
    /\ res = Throw

\* A call of notP(p) or lookaheadP(p) at a valid position.
IsLookCall ==
    /\ op = "parse" /\ pc = "done" /\ arg.parser.op \in {"notP", "lookaheadP"}
    /\ valid(arg.lines, arg.position[1], arg.position[2])

\* The outcome of the inner parser p at the entry state and position.
InnerOutcome ==
    Parse(arg.parser.parser, arg.state, arg.lines, arg.position[1], arg.position[2])

\* C15: notP(p) succeeds exactly when p returns None and lookaheadP(p)
\* exactly when p succeeds; a success is a Discarded node with start and end
\* at the entry position, and the state returned is the entry state.
Cex_C15_DiscardedZeroLength ==
    IsLookCall =>
        /\ (res.kind = "ok") <=>
               (InnerOutcome.kind = IF arg.parser.op = "notP" THEN "none" ELSE "ok")
        /\ res.kind = "ok" =>
               res = Ok(arg.state, Node("undefined", arg.position[1], arg.position[2],
                                        arg.position[1], arg.position[2], <<>>))

(***************************************************************************)
(* Specification SpecLazy: a parser L made by lazyP(thunk) is called by    *)
(* its user up to MaxLazyCalls times.  thunk returns, on each call, a new  *)
(* parser orP(seqP(a, L, b), plus) that refers to L itself, so a call of L *)
(* calls L again while it runs.  drv holds the running calls of L,         *)
(* innermost last; a step is the head of L's parse, a step of the parser   *)
(* it delegates to, or a return.                                           *)
(***************************************************************************)
MaxLazyCalls == 2

\* The parser made by lazyP; its closure variable p is lazy.p.
lazyP == [op |-> "lazyP"]

\* The parser the thunk builds around the lazy parser.
Nested == orP(<<seqP(<<LetterA, lazyP, LetterB>>), Plus>>)

\* The parser returned by call number k of the thunk.
thunk(k) == [op |-> "made", made |-> k, parser |-> Nested]

\* A parse that calls the thunk on every call.
lazyParseHead_noMemo(l) ==
    [l EXCEPT !.p = thunk(l.thunkCalls + 1), !.thunkCalls = l.thunkCalls + 1]

\* if (p === null) p = parser();
lazyParseHead(l) ==
    IF l.p = NullP
    THEN [l EXCEPT !.p = thunk(l.thunkCalls + 1), !.thunkCalls = l.thunkCalls + 1]
    ELSE l

LazyTexts ==
    { createTextLines(<<text>>) : text \in
        { <<"a", "+", "b">>, <<"a", "a", "+", "b", "b">>, <<"a", "a", "+", "b">>,
          <<"a", "+">>, <<"+">>, <<"a", "b">>, <<>> } }

LazyArgs ==
    UNION { [lines : {lines}, position : PositionsOf(lines), state : 0..(NStates - 1)] :
            lines \in LazyTexts }

\* The locals of a call L(state, lines, line, column) that has just begun.
LazyFrame(state, line, column) ==
    [state |-> state, line |-> line, column |-> column, at |-> "enter",
     callee |-> NullP, first |-> None, out |-> Pending]

InitLazy ==
    /\ op = "lazyP" /\ arg = [lines |-> createTextLines(<<>>), position |-> <<0, 0>>, state |-> 0]
    /\ pc = "idle"
    /\ res = Pending
    /\ drv = <<>>
    /\ lazy = NoLazy

\* The user calls L.
LazyCall ==
    /\ op = "lazyP" /\ pc = "idle"
    /\ lazy.calls < MaxLazyCalls
    /\ \E a \in LazyArgs :
          /\ arg' = a
          /\ drv' = <<LazyFrame(a.state, a.position[1], a.position[2])>>
    /\ lazy' = [lazy EXCEPT !.calls = lazy.calls + 1]
    /\ pc' = "running"
    /\ res' = Pending
    /\ UNCHANGED op

\* The head of L's parse: p is set on first use, then p is called.
LazyEnter ==
    /\ op = "lazyP" /\ pc = "running"
    /\ Frame.at = "enter"
    /\ lazy' = lazyParseHead(lazy)
    /\ drv' = [drv EXCEPT ![Len(drv)] = [Frame EXCEPT !.at = "run", !.callee = lazy'.p]]
    /\ UNCHANGED <<op, arg, pc, res>>

\* The first element of the sequence of the callee.
LazyFirst(f) == Parse(f.callee.parser.parsers[1].parsers[1], f.state, arg.lines, f.line, f.column)

\* The second alternative of the callee, run with the entry state and position.
LazyOther(f) == Parse(f.callee.parser.parsers[2], f.state, arg.lines, f.line, f.column)

\* The callee's sequence parsed its first element and calls L.
LazyRecurse ==
    /\ op = "lazyP" /\ pc = "running"
    /\ Frame.at = "run"
    /\ LazyFirst(Frame).kind = "ok"
    /\ drv' = Append([drv EXCEPT ![Len(drv)] = [Frame EXCEPT !.at = "await",
                                                             !.first = LazyFirst(Frame)]],
                     LazyFrame(LazyFirst(Frame).state,
                               LazyFirst(Frame).result.endLine,
                               LazyFirst(Frame).result.endColumnExclusive))
    /\ UNCHANGED <<op, arg, pc, res, lazy>>

\* The callee's sequence failed at its first element: the second
\* alternative decides the outcome of the call.
LazyLeaf ==
    /\ op = "lazyP" /\ pc = "running"
    /\ Frame.at = "run"
    /\ LazyFirst(Frame).kind = "none"
    /\ drv' = [drv EXCEPT ![Len(drv)] = [Frame EXCEPT !.at = "done", !.out = LazyOther(Frame)]]
    /\ UNCHANGED <<op, arg, pc, res, lazy>>

\* The outcome of the call f once the call of L inside its sequence
\* returned r: the rest of the sequence, then the second alternative.
LazyRest(f, r) ==
    With(IF r.kind # "ok" THEN r
         ELSE seqLoop(SubSeq(f.callee.parser.parsers[1].parsers, 3, 3), r.state, arg.lines,
                      endOfResult(r.result), <<f.line, f.column>>,
                      SelectSeq(<<f.first.result, r.result>>,
                                LAMBDA c : c.type # "undefined")),
         LAMBDA sequence : IF sequence.kind = "none" THEN LazyOther(f) ELSE sequence)

\* An inner call of L returns to the call that made it.
LazyResume ==
    /\ op = "lazyP" /\ pc = "running"
    /\ Frame.at = "done" /\ Len(drv) > 1
    /\ drv' = [SubSeq(drv, 1, Len(drv) - 1) EXCEPT ![Len(drv) - 1] =
                  [drv[Len(drv) - 1] EXCEPT !.at = "done",
                                            !.out = LazyRest(drv[Len(drv) - 1], Frame.out)]]
    /\ UNCHANGED <<op, arg, pc, res, lazy>>

\* The outermost call of L returns to the user.
LazyReturn ==
    /\ op = "lazyP" /\ pc = "running"
    /\ Frame.at = "done" /\ Len(drv) = 1
    /\ res' = Frame.out
    /\ drv' = <<>>
    /\ pc' = "idle"
    /\ UNCHANGED <<op, arg, lazy>>

NextLazy == LazyCall \/ LazyEnter \/ LazyRecurse \/ LazyLeaf \/ LazyResume \/ LazyReturn

SpecLazy == InitLazy /\ [][NextLazy]_vars

\* C16: for a parser made by lazyP(thunk): the thunk is not called before
\* the parser is first called, over any sequence of calls (calls made while
\* an outer call of the same parser is running included) the thunk is
\* called at most once, and every call that has passed its head delegates
\* to the parser the first call of the thunk returned.
Thm_C16_ThunkOnce ==
    op = "lazyP" =>
        /\ lazy.calls = 0 => lazy.thunkCalls = 0
        /\ lazy.thunkCalls <= 1
        /\ \A i \in 1..Len(drv) :
               drv[i].at # "enter" => (lazy.thunkCalls = 1 /\ drv[i].callee = thunk(1))

\* C16 witness: in the second call by the user, a call of the lazy parser
\* made while two outer calls of it are running has delegated to the
\* parser of the one thunk call.
Wit_C16_RecursiveSecondCall ==
    /\ op = "lazyP" /\ pc = "running"
    /\ lazy.calls = 2
    /\ Len(drv) = 3
    /\ Frame.at = "run"
    /\ Frame.callee = thunk(1)

\* A call of a parser with operation o at a valid position.
IsCallOf(o) ==
    /\ op = "parse" /\ pc = "done" /\ arg.parser.op = o
    /\ valid(arg.lines, arg.position[1], arg.position[2])

\* The outcome of parser q at the entry state and the entry position.
AtEntry(q) == Parse(q, arg.state, arg.lines, arg.position[1], arg.position[2])

\* The kind of the outcome of the first of the parsers that does not succeed,
\* each one run at the state and the end the one before it returned; "ok"
\* when they all succeed.
RECURSIVE FirstFailure(_, _, _)
FirstFailure(parsers, state, pos) ==
    IF parsers = <<>> THEN "ok"
    ELSE With(Parse(Head(parsers), state, arg.lines, pos[1], pos[2]),
              LAMBDA r : IF r.kind # "ok" THEN r.kind
                         ELSE FirstFailure(Tail(parsers), r.state, endOfResult(r.result)))

\* The state and position <<state, pos>> are those after some number of
\* successful runs of parser q, one after the other, that begin at s and p.
RECURSIVE AfterIterations(_, _, _, _, _)
AfterIterations(q, s, p, state, pos) ==
    \/ s = state /\ p = pos
    \/ With(Parse(q, s, arg.lines, p[1], p[2]),
            LAMBDA r : /\ r.kind = "ok"
                       /\ endOfResult(r.result) # p
                       /\ AfterIterations(q, r.state, endOfResult(r.result), state, pos))

\* C17: what a failed branch parsed is never visible.  orP runs every
\* alternative with the entry state at the entry position and returns the
\* outcome of the first that does not return None; a repP that returns
\* gives the state and the end reached by its successful iterations, at
\* which the inner sequence as a whole returns None; seqP returns None when
\* an element returns None after the elements before it succeeded.
Thm_C17_NoPartialProgress ==
    /\ IsCallOf("orP") =>
           \/ /\ res = None
              /\ \A i \in 1..Len(arg.parser.parsers) : AtEntry(arg.parser.parsers[i]) = None
           \/ \E i \in 1..Len(arg.parser.parsers) :
                 /\ res = AtEntry(arg.parser.parsers[i])
                 /\ res # None
                 /\ \A j \in 1..(i - 1) : AtEntry(arg.parser.parsers[j]) = None
    /\ (IsCallOf("repP") /\ res.kind = "ok") =>
           /\ AfterIterations(arg.parser.parser, arg.state, arg.position,
                              res.state, endOfResult(res.result))
           /\ Parse(arg.parser.parser, res.state, arg.lines,
                    res.result.endLine, res.result.endColumnExclusive) = None
    /\ IsCallOf("seqP") =>
           (FirstFailure(arg.parser.parsers, arg.state, arg.position) = "none" => res = None)

\* C17 witness: a repP over a sequence of two elements returned after at
\* least one iteration, at a state and position where the first element of
\* the sequence succeeds and changes the state but the sequence fails.
Wit_C17_FailingIterationDropped ==
    /\ IsCallOf("repP") /\ res.kind = "ok"
    /\ arg.parser.parser.op = "seqP"
    /\ endOfResult(res.result) # arg.position
    /\ With(Parse(arg.parser.parser.parsers[1], res.state, arg.lines,
                  res.result.endLine, res.result.endColumnExclusive),
            LAMBDA first : first.kind = "ok" /\ first.state # res.state)

\* The joint parsers the joinP law is checked with.
Joints == {Plus, newlineP}

\* A call of a parser p; the laws are checked for p at the state, text and
\* position of the call.
IsLawCall == op = "parse" /\ pc = "done"

\* C18: with p the parser called, at the state, text and position of the
\* call, both sides of each combinator law give the same outcome:
\* seqP() and emptyP(); seqP(p) and p; orP(failP, p) and p; orP(p, failP)
\* and p; optP(p) and orP(p, emptyP); rep1P(p) and seqP(p, repP(p));
\* joinP(p, s) and seqP(p, repP(s, p)).
Thm_C18_CombinatorLaws ==
    IsLawCall =>
        /\ AtEntry(seqP(<<>>)) = AtEntry(emptyP)
        /\ AtEntry(seqP(<<arg.parser>>)) = res
        /\ AtEntry(orP(<<failP, arg.parser>>)) = res
        /\ AtEntry(orP(<<arg.parser, failP>>)) = res
        /\ AtEntry(optP(<<arg.parser>>)) = AtEntry(orP(<<arg.parser, emptyP>>))
        /\ AtEntry(rep1P(<<arg.parser>>)) =
               AtEntry(seqP(<<arg.parser, repP(<<arg.parser>>)>>))
        /\ \A s \in Joints :
               AtEntry(joinP(arg.parser, s)) =
                   AtEntry(seqP(<<arg.parser, repP(<<s, arg.parser>>)>>))

\* C18 witness: the laws were checked for a parser p that succeeded and
\* moved, where rep1P(p) parses p a second time and orP(failP, p) returns
\* p's outcome.
Wit_C18_RepeatedParser ==
    /\ IsLawCall /\ res.kind = "ok"
    /\ endOfResult(res.result) # arg.position
    /\ AtEntry(orP(<<failP, arg.parser>>)) = res
    /\ AtEntry(rep1P(<<arg.parser>>)).kind = "ok"
    /\ Len(AtEntry(rep1P(<<arg.parser>>)).result.children) = 2
    /\ Len(AtEntry(rep1P(<<arg.parser>>)).result.children[2].children) = 1

(***************************************************************************)
(* Specification SpecTerminal: one call                                    *)
(* terminal_parsers(terminals)(state, lines, line, offset) of a terminal   *)
(* parser made by orTerminalParsers or orGreedyTerminalParsers.            *)
(***************************************************************************)
\* A terminal parser whose parser for "x" does not return where it is run.
tpStuck == mkTerminalParsers(<< <<"x", repP(<<emptyP>>)>> >>)

\* The lists of children the two constructors are applied to.
TerminalChildren ==
    { <<>>, tpDigitTwice, tpDigitTwice \o <<tpStuck>>, <<tpStuck, tpTokens>>,
      <<tpLetters, orGreedyTerminalParsers(tpDigitTwice), tpTokens>>,
      <<orTerminalParsers(tpDigitTwice), tpDiscardedPlus>> }

TerminalSets == SUBSET {"num", "+", "x", EOF}

\* The lists of <<sym, parser>> mkTerminalParsers is called with: two
\* parsers that match the same digit, in both orders; a parser that matches
\* the empty text; two lists that name a symbol twice.
Registrations ==
    { <<>>,
      << <<"num", bumpStateP(numP)>>, <<"+", bumpStateP(plusP)>> >>,
      << <<"num", numP>>, <<"x", bumpStateP(Digit)>> >>,
      << <<"x", bumpStateP(Digit)>>, <<"num", numP>> >>,
      << <<"+", plusP>>, <<"x", emptyP>> >>,
      << <<"num", numP>>, <<"num", Digit>> >>,
      << <<"x", Digit>>, <<"+", plusP>>, <<"x", Digit>> >> }

HasDuplicate(parsers) ==
    \E i, j \in 1..Len(parsers) : i # j /\ parsers[i][1] = parsers[j][1]

TerminalArgs ==
    UNION { [tp : { orTerminalParsers(c) : c \in TerminalChildren }
                  \cup { orGreedyTerminalParsers(c) : c \in TerminalChildren }
                  \cup { mkTerminalParsers(r) : r \in {x \in Registrations : ~HasDuplicate(x)} },
             terminals : TerminalSets, lines : {lines},
             position : EntryPositions(lines), state : 0..(NStates - 1)] :
            lines \in LRTexts }

InitTerminal ==
    /\ \/ op = "terminalParse" /\ arg \in TerminalArgs
       \/ op = "mkTerminalParsers" /\ arg \in [parsers : Registrations]
    /\ pc = "call"
    /\ res = Pending
    /\ drv = <<>>
    /\ lazy = NoLazy

TerminalParse ==
    /\ op = "terminalParse" /\ pc = "call"
    /\ res' = terminalParse(arg.tp, arg.terminals, arg.state, arg.lines,
                            arg.position[1], arg.position[2])
    /\ pc' = "done"
    /\ UNCHANGED <<op, arg, drv, lazy>>

\* The call mkTerminalParsers(parsers): the terminal parsers, or the throw.
MkTerminalParsers ==
    /\ op = "mkTerminalParsers" /\ pc = "call"
    /\ res' = With(mkTerminalParsers(arg.parsers),
                   LAMBDA tp : IF tp = Throw THEN Throw ELSE Ret(tp))
    /\ pc' = "done"
    /\ UNCHANGED <<op, arg, drv, lazy>>

NextTerminal == TerminalParse \/ MkTerminalParsers

SpecTerminal == InitTerminal /\ [][NextTerminal]_vars

\* What child i of the terminal parser called gives for the same
\* terminals, state, text and position.
ChildList(i) ==
    terminalParse(arg.tp.parsers[i], arg.terminals, arg.state, arg.lines,
                  arg.position[1], arg.position[2])

\* The lists of children 1 .. n, one after the other.
RECURSIVE ChildListsUpTo(_)
ChildListsUpTo(n) == IF n = 0 THEN <<>> ELSE ChildListsUpTo(n - 1) \o ChildList(n).val

IsTerminalCall(kind) == op = "terminalParse" /\ pc = "done" /\ arg.tp.kind = kind

\* C19: for the same terminals, state and position, orTerminalParsers runs
\* every child and returns the concatenation of the children's lists in
\* child order; orGreedyTerminalParsers returns the list of the first child
\* whose list is not empty, whatever the children after it would do, and
\* the empty list when every child's list is empty.
Thm_C19_TerminalChoice ==
    /\ IsTerminalCall("or") =>
           IF \A i \in 1..Len(arg.tp.parsers) : ChildList(i).kind = "ret"
           THEN res = Ret(ChildListsUpTo(Len(arg.tp.parsers)))
           ELSE res.kind # "ret"
    /\ IsTerminalCall("orGreedy") =>
           \/ /\ res = Ret(<<>>)
              /\ \A i \in 1..Len(arg.tp.parsers) : ChildList(i) = Ret(<<>>)
           \/ \E i \in 1..Len(arg.tp.parsers) :
                 /\ res = ChildList(i)
                 /\ res # Ret(<<>>)
                 /\ \A j \in 1..(i - 1) : ChildList(j) = Ret(<<>>)

\* C19 witness: an orGreedy call returned the non-empty list of a child
\* that is followed by a child which does not return at that position.
Wit_C19_LaterChildNotRun ==
    /\ IsTerminalCall("orGreedy")
    /\ res.kind = "ret" /\ Len(res.val) > 0
    /\ \E i \in 1..Len(arg.tp.parsers) : ChildList(i).kind = "loop"

(***************************************************************************)
(* Specification SpecCutoff: one call                                      *)
(* cutoffAfterIndentation(source, line, isIndented), with isIndented built *)
(* from a lexer as sectionP builds it.                                     *)
(***************************************************************************)
CutoffArgs ==
    [source : WindowSources, line : 0..MaxTextLines, spacesL : {spacesL, indent2L}]

InitCutoff ==
    /\ op = "cutoffAfterIndentation" /\ arg \in CutoffArgs
    /\ pc = "call"
    /\ res = Pending
    /\ drv = <<>>
    /\ lazy = NoLazy

CutoffAfterIndentation ==
    /\ op = "cutoffAfterIndentation" /\ pc = "call"
    /\ res' = cutoffAfterIndentation(arg.source, arg.line, arg.spacesL)
    /\ pc' = "done"
    /\ UNCHANGED <<op, arg, drv, lazy>>

NextCutoff == CutoffAfterIndentation

SpecCutoff == InitCutoff /\ [][NextCutoff]_vars

\* The indices after arg.line of the source lines that are not indented.
NotIndentedAfter ==
    { i \in (arg.line + 1)..(lineCountOf(arg.source) - 1) :
        ~isIndented(arg.spacesL, lineAt(arg.source, i).val) }

\* The smallest of them.
FirstNotIndentedAfter ==
    CHOOSE j \in NotIndentedAfter : \A i \in NotIndentedAfter : j <= i

\* A call of cutoffAfterIndentation at a line of the source that returned.
IsCutoffCall ==
    /\ op = "cutoffAfterIndentation" /\ pc = "done"
    /\ valid(arg.source, arg.line, 0)

\* C20 as stated: with j the first line after `line` that is not indented,
\* the view has lineCount j + 1 and line j is valid and readable in it; the
\* view is the source when every line after `line` is indented.
Cex_C20_EndsWithFirstNotIndented ==
    IsCutoffCall =>
        /\ res.kind = "ret"
        /\ IF NotIndentedAfter = {} THEN res.val = arg.source
           ELSE /\ lineCountOf(res.val) = FirstNotIndentedAfter + 1
                /\ valid(res.val, FirstNotIndentedAfter, 0)
                /\ lineAt(res.val, FirstNotIndentedAfter).kind = "ret"

\* C20: the view ends before the first line after `line` that is not
\* indented.  With j the smallest index > line whose line is not indented,
\* the view's lineCount is j, a position is valid in the view exactly when
\* it is valid in the source and its line is less than j (so no position of
\* line j is valid), and lineAt gives the source's line for every line of
\* the source, line j included; if every line after `line` is indented the
\* view is the source itself.
Thm_C20_EndsBeforeFirstNotIndented ==
    IsCutoffCall =>
        /\ res.kind = "ret"
        /\ IF NotIndentedAfter = {} THEN res.val = arg.source
           ELSE /\ lineCountOf(res.val) = FirstNotIndentedAfter
                /\ \A l \in 0..lineCountOf(arg.source), c \in 0..WidthOf(arg.source) :
                       valid(res.val, l, c) <=>
                           (valid(arg.source, l, c) /\ l < FirstNotIndentedAfter)
                /\ \A l \in 0..lineCountOf(arg.source) :
                       lineAt(res.val, l) = lineAt(arg.source, l)

\* C20 witness: a view was cut off at a line j that is not indented, after
\* an indented line was passed; line j is readable but not valid in it.
Wit_C20_CutAfterIndentedLine ==
    /\ IsCutoffCall /\ res.kind = "ret"
    /\ NotIndentedAfter # {}
    /\ FirstNotIndentedAfter > arg.line + 1
    /\ res.val.kind = "cutoff"
    /\ lineAt(res.val, FirstNotIndentedAfter).kind = "ret"
    /\ ~valid(res.val, FirstNotIndentedAfter, 0)

\* The paths of tree t: the sequences of child indices that lead from the
\* root to a node.
RECURSIVE PathsOf(_)
PathsOf(t) ==
    {<<>>} \cup UNION { {<<i>> \o q : q \in PathsOf(t.children[i])} :
                        i \in 1..Len(t.children) }

\* The node of t at path q.
RECURSIVE NodeAt(_, _)
NodeAt(t, q) == IF q = <<>> THEN t ELSE NodeAt(t.children[Head(q)], Tail(q))

\* Path a comes before path b in depth-first document order.
RECURSIVE PathBefore(_, _)
PathBefore(a, b) ==
    IF a = <<>> THEN b # <<>>
    ELSE IF b = <<>> THEN FALSE
    ELSE Head(a) < Head(b) \/ (Head(a) = Head(b) /\ PathBefore(Tail(a), Tail(b)))

\* The paths of the Labeled nodes of arg.result that satisfy the predicate
\* and have only Structural nodes above them.
MatchPaths ==
    { q \in PathsOf(arg.result) :
        /\ NodeAt(arg.result, q).type \notin {"null", "undefined"}
        /\ holds(arg.predicate, NodeAt(arg.result, q))
        /\ \A k \in 0..(Len(q) - 1) : NodeAt(arg.result, SubSeq(q, 1, k)).type = "null" }

\* The nodes at the paths of set S, in document order.
RECURSIVE InDocumentOrder(_)
InDocumentOrder(S) ==
    IF S = {} THEN <<>>
    ELSE LET first == CHOOSE a \in S : \A b \in S \ {a} : PathBefore(a, b)
         IN <<NodeAt(arg.result, first)>> \o InDocumentOrder(S \ {first})

\* C21: selectResults returns, in depth-first document order, exactly the
\* Labeled nodes that satisfy the predicate and are reached from the root
\* through Structural nodes only; selectResult returns the match when there
\* is exactly one and throws otherwise.
Thm_C21_SelectThroughStructural ==
    /\ (op = "selectResults" /\ pc = "done") => res = Ret(InDocumentOrder(MatchPaths))
    /\ (op = "selectResult" /\ pc = "done") =>
           IF Cardinality(MatchPaths) = 1 THEN res = Ret(InDocumentOrder(MatchPaths)[1])
           ELSE res = Throw

\* C21 witness: selectResults returned two nodes, in document order, of a
\* tree that has a third node satisfying the predicate below a Labeled node.
Wit_C21_HiddenMatch ==
    /\ op = "selectResults" /\ pc = "done"
    /\ Len(res.val) = 2
    /\ res.val[1].startColumnInclusive < res.val[2].startColumnInclusive
    /\ \E q \in PathsOf(arg.result) \ MatchPaths :
          /\ holds(arg.predicate, NodeAt(arg.result, q))
          /\ \E k \in 0..(Len(q) - 1) :
                NodeAt(arg.result, SubSeq(q, 1, k)).type \in {"A", "B"}

(***************************************************************************)
(* Claims about the passes of the LR driver's loop (checked under SpecLR). *)
(* A pass is a step of the running frame d == Frame to e == Frame'.        *)
(***************************************************************************)
\* What execute reads for the plan of the top LR state of the locals d:
\* its action, and in x the tokens read, their states and munch.
Reads(d) ==
    execute(arg.G, d.lines, arg.G.plans[d.lr_states[Len(d.lr_states)] + 1],
            [state |-> d.state, line |-> d.line, offset |-> d.offset,
             tokens |-> <<>>, states |-> <<d.state>>, munch |-> 0])

\* The plan of the top LR state of d ends in an action of the given kind.
EndsIn(d, kind) == Reads(d).kind = "action" /\ Reads(d).action.kind = kind

\* The step is a pass of the loop of the running frame that ended in break.
IsPass == op = "lrP" /\ pc = "loop" /\ pc' = "loop" /\ Len(drv') = Len(drv) /\ drv' # drv

\* The tree a Shift of the first k of the tokens pushes at the cursor of d.
ShiftedTree(d, tokens, k) ==
    IF k = 1 THEN tokens[1]
    ELSE Node("null", d.line, d.offset,
              IF k = 0 THEN d.line ELSE tokens[k].endLine,
              IF k = 0 THEN d.offset ELSE tokens[k].endColumnExclusive,
              SubSeq(tokens, 1, k))

ShiftPass(d, e, r) ==
    LET n == Len(r.x.tokens)
        k == r.x.munch
    IN (r.action.kind = "SHIFT" /\ k <= n) =>
           /\ e.lr_states = Append(d.lr_states, r.action.state)
           /\ e.results = Append(d.results, ShiftedTree(d, r.x.tokens, k))
           /\ <<e.line, e.offset>> = IF k = 0 THEN <<d.line, d.offset>>
                                     ELSE endOfResult(r.x.tokens[k])
           /\ e.state = r.x.states[k + 1]
           /\ r.x.states[1] = d.state

\* C22: a pass whose plan read n tokens and ended in Shift(s, k), k <= n,
\* pushes s on the LR stack and one tree on the result buffer (token 1 when
\* k = 1, otherwise a Structural node over the first k tokens), moves the
\* cursor to the end of token k (not at all when k = 0) and sets the user
\* state to the one returned with token k (the state before the plan when
\* k = 0); the tokens after the k-th have no effect.
Thm_C22_ShiftStep ==
    [][IsPass => ShiftPass(Frame, Frame', Reads(Frame))]_vars

\* C22 witness: after a plan that read three tokens and shifted two of them
\* the buffer holds a Structural node over the two tokens, the cursor is
\* behind the second token and the user state is the one after two tokens.
Wit_C22_TwoOfThreeShifted ==
    /\ op = "lrP" /\ pc = "loop" /\ arg.G = PeekGrammar
    /\ Frame.lr_states = <<0, 1>>
    /\ Len(Frame.results) = 1
    /\ Frame.results[1].type = "null" /\ Len(Frame.results[1].children) = 2
    /\ Frame.offset = arg.position[2] + 2
    /\ Frame.state = (arg.state + 2) % NStates

\* The rule of the Reduce the plan of the top LR state of d ends in.
ReduceRule(d) == arg.G.rules[Reads(d).action.rule + 1]

\* The tree a Reduce by rule makes of the trees rhs at the cursor of d.
ReducedTree(d, rule, rhs) ==
    LET label == IF rule.lhs \in DOMAIN arg.G.nonterminals
                 THEN arg.G.nonterminals[rule.lhs] ELSE "null"
    IN IF rhs = <<>> THEN Node(label, d.line, d.offset, d.line, d.offset, <<>>)
       ELSE Node(label, startOfResult(rhs[1])[1], startOfResult(rhs[1])[2],
                 endOfResult(rhs[Len(rhs)])[1], endOfResult(rhs[Len(rhs)])[2], rhs)

\* The step is a pass of the running frame whose plan ended in Reduce by a
\* rule with fewer right-hand-side symbols than the LR stack has states.
IsReduce ==
    /\ op = "lrP" /\ pc = "loop" /\ vars' # vars
    /\ EndsIn(Frame, "REDUCE")
    /\ Len(Frame.lr_states) > Len(ReduceRule(Frame).rhs)

\* The state below the states the Reduce pops.
ReduceTop(d) == d.lr_states[Len(d.lr_states) - Len(ReduceRule(d).rhs)]

ReducePass(d, e, rule) ==
    LET L == Len(rule.rhs)
        n == Len(d.results)
    IN /\ Len(drv') = Len(drv) /\ pc' = "loop"
       /\ e.lr_states = Append(SubSeq(d.lr_states, 1, Len(d.lr_states) - L),
                               goto(arg.G, ReduceTop(d), rule.lhs))
       /\ e.results = Append(SubSeq(d.results, 1, n - L),
                             ReducedTree(d, rule, SubSeq(d.results, n - L + 1, n)))
       /\ <<e.line, e.offset>> = <<d.line, d.offset>>

\* failed() was called with the stack and the buffer of d: the call
\* returned the failure value or began the restart; nothing was thrown.
FailedPass(d) ==
    /\ pc' = "failed" \/ (pc' = "loop" /\ Len(drv') = Len(drv) + 1)
    /\ drv'[Len(drv)].lr_states = d.lr_states
    /\ drv'[Len(drv)].results = d.results
    /\ res' # Throw

\* C23: a Reduce by rule r with L = |rhs(r)| on an LR stack of more than L
\* states, when goto(state below the L popped, lhs(r)) is defined, removes
\* the top L states and the top L trees, pushes the goto state and one tree
\* with the L removed trees as children in order, labeled by the
\* nonterminal's label (Structural if none), spanning from the first
\* child's start to the last child's end (empty at the cursor when L = 0),
\* and leaves the cursor; when goto is undefined the step fails through
\* the failure policy with stack and buffer unchanged.
Thm_C23_ReduceStep ==
    [][IsReduce =>
          IF goto(arg.G, ReduceTop(Frame), ReduceRule(Frame).lhs) # -1
          THEN ReducePass(Frame, Frame', ReduceRule(Frame))
          ELSE FailedPass(Frame)]_vars

\* C23 witness: a Reduce by E -> E + T has replaced three trees by one tree
\* labeled E with three children, below which the stack is [0, 1].
Wit_C23_ReducedThree ==
    /\ op = "lrP" /\ pc = "loop"
    /\ Frame.lr_states = <<0, 1>>
    /\ Len(Frame.results) = 1
    /\ Frame.results[1].type = "E"
    /\ Len(Frame.results[1].children) = 3
    /\ endOfResult(Frame.results[1]) = <<Frame.line, Frame.offset>>

\* The variables execute starts with in a pass of the frame d.
PlanStart(d) ==
    [state |-> d.state, line |-> d.line, offset |-> d.offset,
     tokens |-> <<>>, states |-> <<d.state>>, munch |-> 0]

\* The candidates the terminal parsers return for the union of the
\* terminal sets of all options of the Read plan, at the position of x.
Candidates(lines, plan, x) ==
    terminalParse(arg.G.terminal_parsers,
                  UNION {plan.options[i][1] : i \in 1..Len(plan.options)},
                  x.state, lines, x.line, x.offset)

\* The options of the Read plan whose terminal set contains sym.
OptionsWith(plan, sym) == {i \in 1..Len(plan.options) : sym \in plan.options[i][1]}

FirstOptionWith(plan, sym) ==
    CHOOSE i \in OptionsWith(plan, sym) : \A j \in OptionsWith(plan, sym) : i <= j

\* x after the single candidate c was recorded.
Recorded(x, c) ==
    [x EXCEPT !.state = c.state, !.line = c.result.endLine,
              !.offset = c.result.endColumnExclusive,
              !.states = Append(@, c.state), !.tokens = Append(@, c.result)]

\* The Reads a plan comes to, each with the variables it starts from: the
\* plan itself and, after a single candidate, the Reads of the plan of the
\* first option with the candidate's symbol.
RECURSIVE ReadPoints(_, _, _)
ReadPoints(lines, plan, x) ==
    IF plan.kind # "READ" THEN {}
    ELSE {<<plan, x>>} \cup
         With(Candidates(lines, plan, x), LAMBDA cs :
             IF cs.kind = "ret" /\ Len(cs.val) = 1 /\ OptionsWith(plan, cs.val[1].sym) # {}
             THEN ReadPoints(lines, plan.options[FirstOptionWith(plan, cs.val[1].sym)][2],
                             Recorded(x, cs.val[1]))
             ELSE {})

TopPlan(d) == arg.G.plans[d.lr_states[Len(d.lr_states)] + 1]

ReadStep(d, plan, x) ==
    With(Candidates(d.lines, plan, x), LAMBDA cs :
        cs.kind = "ret" =>
            IF Len(cs.val) # 1 THEN FailedPass(d)
            ELSE OptionsWith(plan, cs.val[1].sym) # {} =>
                 execute(arg.G, d.lines, plan, x)
                   = execute(arg.G, d.lines,
                             plan.options[FirstOptionWith(plan, cs.val[1].sym)][2],
                             Recorded(x, cs.val[1])))

\* C24: a Read calls the terminal parsers with the union of the terminal
\* sets of all its options; when they return no candidate or more than one
\* the pass fails through the failure policy, nothing is thrown and the
\* stack and the buffer are as before; when they return exactly one, its
\* token and state are recorded and the plan of the first option whose set
\* contains the token's symbol is run.
Thm_C24_ReadStep ==
    [][(op = "lrP" /\ pc = "loop" /\ vars' # vars) =>
          \A rp \in ReadPoints(Frame.lines, TopPlan(Frame), PlanStart(Frame)) :
              ReadStep(Frame, rp[1], rp[2])]_vars

\* C24 witness: the parse failed at a Read for which the terminal parsers
\* returned two candidates.
Wit_C24_TwoCandidates ==
    /\ op = "lrP" /\ pc = "failed"
    /\ TopPlan(Frame).kind = "READ"
    /\ Candidates(Frame.lines, TopPlan(Frame), PlanStart(Frame)).kind = "ret"
    /\ Len(Candidates(Frame.lines, TopPlan(Frame), PlanStart(Frame)).val) = 2
    /\ res # Throw

\* C25: an Accept returns the single tree of the result buffer together
\* with the current user state when the buffer holds exactly one tree; with
\* an empty buffer or several trees it raises an internal error: the call
\* neither returns undefined nor goes through the failure policy.
Thm_C25_AcceptStep ==
    [][(op = "lrP" /\ pc = "loop" /\ vars' # vars /\ EndsIn(Frame, "ACCEPT")) =>
          /\ pc' = "done" /\ drv' = drv
          /\ res' = IF Len(Frame.results) = 1
                    THEN Ok(Frame.state, Frame.results[1]) ELSE Throw]_vars

\* C25 witness: an Accept with two trees in the buffer has thrown.
Wit_C25_AcceptWithTwoTrees ==
    /\ op = "lrP" /\ pc = "done" /\ res = Throw
    /\ EndsIn(Frame, "ACCEPT")
    /\ Len(Frame.results) = 2

Cursor(d) == <<d.line, d.offset>>

NotBefore(p, q) == PosLeq(q[1], q[2], p[1], p[2])

TopIsFinal(d) == d.lr_states[Len(d.lr_states)] \in arg.G.finalStates

\* A pass of the loop of the running call of parse that did not return:
\* the frame of the call after the pass is drv'[Len(drv)].
LoopPass(d, e) ==
    /\ NotBefore(Cursor(e), Cursor(d))
    /\ e.last_valid = IF TopIsFinal(d) THEN Cursor(d) ELSE d.last_valid

\* C26: during one call of parse the cursor never moves backwards;
\* last_valid is unset when the call starts and stays so until the first
\* pass whose top LR state is final, after which it is the cursor at the
\* head of the most recent such pass; whenever last_valid is set, and so at
\* any failure, it is not after the cursor.
Thm_C26_CursorAndLastValid ==
    /\ Frame.last_valid = Absent
    /\ [][(op = "lrP" /\ pc = "loop" /\ drv' # drv) =>
             /\ LoopPass(Frame, drv'[Len(drv)])
             /\ Len(drv') > Len(drv) => Frame'.last_valid = Absent]_vars
    /\ [](op = "lrP" =>
             \A i \in 1..Len(drv) :
                 drv[i].last_valid # Absent => NotBefore(Cursor(drv[i]), drv[i].last_valid))

\* C26 witness: a parse has failed with the cursor after last_valid, which
\* was recorded at a pass after the first one, and the top LR state at the
\* failure is not final.
Wit_C26_FailedAfterLastValid ==
    /\ op = "lrP" /\ pc = "failed"
    /\ Frame.last_valid # Absent
    /\ Frame.last_valid # Cursor(Frame)
    /\ Frame.last_valid # <<Frame.startLine, Frame.startOffset>>
    /\ ~TopIsFinal(Frame)

\* C27: at the head of every pass of the loop the LR stack holds exactly
\* one more entry than the result buffer (in the running call and in the
\* calls waiting for a restart), so that a Reduce by a rule with L
\* right-hand-side symbols whose stack check passes finds L trees.
Thm_C27_StackOverBuffer ==
    op = "lrP" =>
        /\ \A i \in 1..Len(drv) : Len(drv[i].lr_states) = Len(drv[i].results) + 1
        /\ (pc = "loop" /\ EndsIn(Frame, "REDUCE")
               /\ Len(Frame.lr_states) > Len(ReduceRule(Frame).rhs))
              => Len(Frame.results) >= Len(ReduceRule(Frame).rhs)

\* C27 witness: the head of a pass that reduces two or more trees, with a
\* tree in the buffer that has several children.
Wit_C27_ReduceFindsTrees ==
    /\ op = "lrP" /\ pc = "loop"
    /\ EndsIn(Frame, "REDUCE")
    /\ Len(ReduceRule(Frame).rhs) >= 2
    /\ Len(Frame.lr_states) > Len(ReduceRule(Frame).rhs)
    /\ \E i \in 1..Len(Frame.results) : Len(Frame.results[i].children) >= 2

\* The plan of the top LR state of d reads one or more tokens and then
\* ends in Reduce or Accept.
ReadsThenActs(d) ==
    /\ Reads(d).kind = "action"
    /\ Reads(d).action.kind \in {"REDUCE", "ACCEPT"}
    /\ Len(Reads(d).x.tokens) >= 1

\* C28: when a plan reads one or more tokens and then ends in Reduce or
\* Accept, none of them is consumed: the action works on the cursor, the
\* buffer and the user state of before the plan.  An Accept returns the
\* buffer's tree with the state before the first read; after a Reduce the
\* buffer is made of the trees it held before the plan, and the cursor and
\* the user state are those before the plan, so that the next plan starts
\* reading where this one did.
Thm_C28_LookaheadNotConsumed ==
    [][(op = "lrP" /\ pc = "loop" /\ vars' # vars /\ ReadsThenActs(Frame)) =>
          /\ (pc' = "done" /\ res'.kind = "ok") => res' = Ok(Frame.state, Frame.results[1])
          /\ drv' # drv => PlanStart(drv'[Len(drv)]) = PlanStart(Frame)
          /\ (pc' = "loop" /\ Len(drv') = Len(drv)) =>
                 ReducePass(Frame, Frame', ReduceRule(Frame))
          /\ (drv' # drv /\ ~(pc' = "loop" /\ Len(drv') = Len(drv))) =>
                 drv'[Len(drv)].results = Frame.results]_vars

\* C28 witness: a Reduce has been done by a plan that read a token which
\* changed the user state, and the plan of the new top LR state reads that
\* token from the same cursor and the same state.
Wit_C28_ReadAgain ==
    /\ op = "lrP" /\ pc = "loop"
    /\ Len(Frame.results) >= 1
    /\ Frame.results[Len(Frame.results)].type = "E"
    /\ endOfResult(Frame.results[Len(Frame.results)]) = Cursor(Frame)
    /\ Reads(Frame).kind = "action"
    /\ Len(Reads(Frame).x.tokens) >= 1
    /\ Reads(Frame).x.tokens[1].type = "plus"
    /\ Reads(Frame).x.states[2] # Frame.state

(***************************************************************************)
(* Specification SpecUntil: one call textlinesUntil(lines, l, c) at a      *)
(* valid position of lines, as failed() makes it with last_valid.  The     *)
(* lines are sources, the views cutoffAfterIndentation makes of them       *)
(* (sectionP hands such a view to its body) and the views textlinesUntil   *)
(* makes of them.                                                          *)
(***************************************************************************)
CutoffViews ==
    {cutoffAfterIndentation(s, 0, spacesL).val :
         s \in {x \in WindowSources : lineCountOf(x) > 0}}

UntilViews ==
    UNION {{textlinesUntil(s, q[1], q[2]).val : q \in PositionsOf(s)} : s \in WindowSources}

UntilArgs ==
    UNION {[lines : {v}, position : PositionsOf(v)] :
               v \in WindowSources \cup CutoffViews \cup UntilViews}

InitUntil ==
    /\ op = "textlinesUntil" /\ arg \in UntilArgs
    /\ pc = "call"
    /\ res = Pending
    /\ drv = <<>>
    /\ lazy = NoLazy

TextlinesUntil ==
    /\ op = "textlinesUntil" /\ pc = "call"
    /\ res' = textlinesUntil(arg.lines, arg.position[1], arg.position[2])
    /\ pc' = "done"
    /\ UNCHANGED <<op, arg, drv, lazy>>

NextUntil == TextlinesUntil

SpecUntil == InitUntil /\ [][NextUntil]_vars

\* The positions looked at: a line and a column beyond those of the lines.
GridOf(v) == (0..(lineCountOf(v) + 1)) \X (0..(WidthOf(v) + 1))

UntilView(lines, view, l, c) ==
    /\ \A q \in GridOf(lines) :
           valid(view, q[1], q[2]) =>
               /\ valid(lines, q[1], q[2])
               /\ PosLeq(q[1], q[2], l, c)
    /\ \A i \in 0..(l - 1) : lineAt(view, i) = lineAt(lines, i)
    /\ l < lineCountOf(lines) =>
           /\ lineAt(view, l).kind = "ret"
           /\ Len(lineAt(view, l).val) >= c
           /\ SubSeq(lineAt(view, l).val, 1, c) = SubSeq(lineAt(lines, l).val, 1, c)
    /\ valid(view, l, c)
    /\ \A state \in 0..(NStates - 1) :
           eofParse(state, view, l, c) = Ok(state, Node("undefined", l, c, l, c, <<>>))

\* C29: for textlinesUntil(lines, l, c) with (l, c) a valid position of
\* lines, every position valid in the returned view is valid in lines and
\* not after (l, c); the lines before l and the first c characters of line
\* l are those of lines; (l, c) is valid in the view; and eofP succeeds at
\* (l, c) in the view.
Thm_C29_UntilView ==
    (op = "textlinesUntil" /\ pc = "done") =>
        /\ res.kind = "ret"
        /\ UntilView(arg.lines, res.val, arg.position[1], arg.position[2])

\* C29 witness: a view that ends inside a line which is not the last line
\* of lines, and not at the start of that line.
Wit_C29_CutInsideLine ==
    /\ op = "textlinesUntil" /\ pc = "done"
    /\ res.kind = "ret"
    /\ arg.position[1] > 0
    /\ arg.position[1] + 1 < lineCountOf(arg.lines)
    /\ arg.position[2] > 0
    /\ arg.position[2] < Len(lineAt(arg.lines, arg.position[1]).val)
    /\ lineCountOf(res.val) = arg.position[1] + 1

\* The registered parsers whose symbol is requested, by their index.
Requested == {i \in 1..Len(arg.tp.parsers) : arg.tp.parsers[i][1] \in arg.terminals}

\* What the i-th registered parser returns at the entry of the call.
OutcomeOf(i) ==
    Parse(arg.tp.parsers[i][2], arg.state, arg.lines, arg.position[1], arg.position[2])

\* The candidate made of the symbol sym and the success r.
Candidate(sym, r) == [sym |-> sym, state |-> r.state, result |-> r.result]

\* i is the first requested parser, in registration order, that succeeds:
\* the requested ones before it returned undefined.
FirstSuccess(i) ==
    /\ i \in Requested
    /\ OutcomeOf(i).kind = "ok"
    /\ \A j \in Requested : j < i => OutcomeOf(j).kind = "none"

EofOutcome == eofParse(arg.state, arg.lines, arg.position[1], arg.position[2])

\* C30: the terminal parsers made by mkTerminalParsers return at most one
\* candidate: the match of the first parser, in registration order, among
\* those registered for a requested symbol that succeeds; the end of input
\* is tried only when it is requested and all of those failed (so an
\* unrequested or unreached eofP neither matches nor throws); the list is
\* empty when nothing succeeds.  mkTerminalParsers throws exactly when two
\* of the registered parsers have the same symbol.
Thm_C30_MkTerminalParsers ==
    /\ IsTerminalCall("mk") =>
          /\ res.kind = "ret" => Len(res.val) <= 1
          /\ \A i \in Requested :
                 FirstSuccess(i) => res = Ret(<<Candidate(arg.tp.parsers[i][1], OutcomeOf(i))>>)
          /\ (\A i \in Requested : OutcomeOf(i).kind = "none") =>
                 IF EOF \notin arg.terminals THEN res = Ret(<<>>)
                 ELSE /\ EofOutcome.kind = "ok" => res = Ret(<<Candidate(EOF, EofOutcome)>>)
                      /\ EofOutcome.kind = "none" => res = Ret(<<>>)
    /\ (op = "mkTerminalParsers" /\ pc = "done") =>
          (res = Throw <=> HasDuplicate(arg.parsers))

\* C30 witness: two requested parsers match at the entry and the candidate
\* is that of the one registered first, which is not the one whose symbol
\* comes first; the end of input is requested as well.
Wit_C30_FirstRegistered ==
    /\ IsTerminalCall("mk")
    /\ Requested = {1, 2}
    /\ OutcomeOf(1).kind = "ok" /\ OutcomeOf(2).kind = "ok"
    /\ OutcomeOf(1) # OutcomeOf(2)
    /\ arg.tp.parsers[1][1] = "x"
    /\ EOF \in arg.terminals
    /\ res.kind = "ret" /\ res.val[1].sym = "x"

=============================================================================
